---- MODULE Spec2Model ----
(***************************************************************************)
(* Model of the access / service data pipeline of the Utility Health       *)
(* Navigator dashboard (src/Dashboard/uhn_dashboard.py).                   *)
(*                                                                         *)
(* Text is a sequence of one-character strings, so that strip, lower and   *)
(* the slug's regular expression are computed character by character.      *)
(* A cell of a table is a record [t, s, n, d]: a text, a number n/d, a     *)
(* missing value (NaN / pd.NA), +-infinity or Python's None.               *)
(***************************************************************************)
EXTENDS Integers, Sequences, FiniteSets, TLC

VARIABLES
    slugIn,       \* the <<country, zone>> pair handed to _zone_identifier
    slugOut,      \* what _zone_identifier returned, or NotCalled
    df,           \* the table handed to _latest_snapshot
    latest,       \* what _latest_snapshot returned or raised, or NotCalled
    waterFile,    \* Data/Water Access Data.csv as read_csv reads it, or Absent
    sewerFile,    \* Data/Sewer Access Data.csv, or Absent
    serviceFile,  \* Data/Service_data.csv, or Absent
    kpiCache,     \* st.cache_data's entry for _load_access_kpi_data
    serviceCache, \* st.cache_data's entry for _prepare_service_data
    ret,          \* the outcome of the loader call just made, or NotCalled
    session_state, \* st.session_state: the value stored under each key, or Missing
    lastRun       \* the last run of render_uhn_dashboard: its event and how it ended

slugVars == <<slugIn, slugOut>>
snapVars == <<df, latest>>
fileVars == <<waterFile, sewerFile, serviceFile>>
cacheVars == <<kpiCache, serviceCache>>
sessVars == <<session_state, lastRun>>
vars == <<slugVars, snapVars, fileVars, cacheVars, ret, sessVars>>

\* ------------------------------------------------------------------ bounds
MaxLen == 2        \* longest enumerated country / zone text of the slug inputs
MaxSnapRows == 3   \* most rows of a table handed to _latest_snapshot
MaxWaterRows == 2  \* most rows of the water access file
MaxSewerRows == 2  \* most rows of the sewer access file
MaxServiceRows == 2 \* most rows of the service data file
MaxNormRows == 2    \* most rows of a table handed to _normalise_access_df
MaxLadderRows == 2  \* most rows of a table handed to plot_access_ladder_by_zone
MaxHeaderLen == 4   \* most characters of a column header
MaxIndicators == 2  \* most rows of the indicator table handed to apply_filters
MaxSearchLen == 2   \* most characters of a search text

\* ------------------------------------------------------------------ characters
\* The characters the model uses, in code point order.
Chars ==
    <<" ", "!", "(", "-", ".", "/",
      "0", "1", "2", "3", "4", "5", "6", "7", "8", "9",
      "A", "B", "C", "D", "E", "F", "G", "H", "I", "J", "K", "L", "M",
      "N", "O", "P", "Q", "R", "S", "T", "U", "V", "W", "X", "Y", "Z",
      "_",
      "a", "b", "c", "d", "e", "f", "g", "h", "i", "j", "k", "l", "m",
      "n", "o", "p", "q", "r", "s", "t", "u", "v", "w", "x", "y", "z">>

Ord(c) == CHOOSE i \in 1..Len(Chars) : Chars[i] = c

IsDigit(c) == Ord(c) \in Ord("0")..Ord("9")
IsUpper(c) == Ord(c) \in Ord("A")..Ord("Z")
IsLower(c) == Ord(c) \in Ord("a")..Ord("z")

\* str.lower() on one character
LowerChar(c) == IF IsUpper(c) THEN Chars[Ord(c) + (Ord("a") - Ord("A"))] ELSE c

\* str.lower()
LowerStr(s) == [i \in 1..Len(s) |-> LowerChar(s[i])]

\* s.lstrip / s.rstrip: drop the leading / trailing run of characters of drop
RECURSIVE LStrip(_, _)
LStrip(s, drop) ==
    IF s # <<>> /\ Head(s) \in drop THEN LStrip(Tail(s), drop) ELSE s

RECURSIVE RStrip(_, _)
RStrip(s, drop) ==
    IF s # <<>> /\ s[Len(s)] \in drop
    THEN RStrip(SubSeq(s, 1, Len(s) - 1), drop)
    ELSE s

\* s.strip("-")
StripHyphens(s) == RStrip(LStrip(s, {"-"}), {"-"})
\* s.strip()
StripSpaces(s) == RStrip(LStrip(s, {" "}), {" "})

\* ------------------------------------------------------------------ cells
Str(s) == [t |-> "str", s |-> s, n |-> 0, d |-> 1]
Num(n) == [t |-> "num", s |-> <<>>, n |-> n, d |-> 1]
NaN == [t |-> "nan", s |-> <<>>, n |-> 0, d |-> 1]
PosInf == [t |-> "inf", s |-> <<>>, n |-> 0, d |-> 1]
NegInf == [t |-> "ninf", s |-> <<>>, n |-> 0, d |-> 1]
None == [t |-> "none", s |-> <<>>, n |-> 0, d |-> 1]

IsStr(v) == v.t = "str"
IsNum(v) == v.t = "num"
\* pd.isna
IsNa(v) == v.t \in {"nan", "none"}
NotNa(v) == ~IsNa(v)

\* Python truthiness, as `x or default` evaluates it: None, "" and 0 are
\* false; float('nan') is true.
Truthy(v) ==
    CASE v.t = "none" -> FALSE
      [] v.t = "str" -> v.s # <<>>
      [] v.t = "num" -> v.n # 0
      [] OTHER -> TRUE

PyOr(v, default) == IF Truthy(v) THEN v ELSE default

T_nan == <<"n", "a", "n">>
T_na == <<"n", "a">>
T_zone == <<"z", "o", "n", "e">>
T_None == <<"N", "o", "n", "e">>
T_inf == <<"i", "n", "f">>
T_ninf == <<"-", "i", "n", "f">>

\* ------------------------------------------------------------------ idle values
NotCalled == [fn |-> "none", ok |-> TRUE, err |-> "", val |-> <<>>]
Absent == [present |-> FALSE, cols |-> {}, index |-> <<>>, rows |-> <<>>]
NoEntry == [cached |-> FALSE, val |-> <<>>]

Returned(fn, val) == [fn |-> fn, ok |-> TRUE, err |-> "", val |-> val]
Raised(fn, err) == [fn |-> fn, ok |-> FALSE, err |-> err, val |-> <<>>]

SlugIdle == slugIn = <<None, None>> /\ slugOut = NotCalled
SnapIdle == df = Absent /\ latest = NotCalled
FilesIdle == waterFile = Absent /\ sewerFile = Absent /\ serviceFile = Absent
CacheIdle == kpiCache = NoEntry /\ serviceCache = NoEntry

\* Values of st.session_state: a key that is not there, None, a text, a list
\* (a value that cannot be hashed), and an entry of ZONES named by its id
Missing == [kind |-> "missing", v |-> ""]
PyNone == [kind |-> "None", v |-> ""]
PyStr(text) == [kind |-> "str", v |-> text]
PyList == [kind |-> "list", v |-> ""]
PyDict(id) == [kind |-> "dict", v |-> id]

SessionKeys == {"global_zone", "selected_zone", "start_month", "end_month",
                "blockage_basis", "active_scene"}

NoSession == [k \in SessionKeys |-> Missing]
NoEvent == [kind |-> "none", arg |-> ""]
NotRun == [event |-> NoEvent, after |-> "", outcome |-> "none", scene |-> ""]

SessionIdle == session_state = NoSession /\ lastRun = NotRun

\* ------------------------------------------------------------------ slug
\* The text an f-string makes of a value: a text as is, a missing float as
\* "nan".  (Numbers are not handed to the slug by the pipeline.)
Format(v) ==
    CASE v.t = "str" -> v.s
      [] v.t = "nan" -> T_nan
      [] v.t = "none" -> T_None
      [] v.t = "inf" -> T_inf
      [] v.t = "ninf" -> T_ninf

\* [a-z0-9]
IsSlugChar(c) == IsLower(c) \/ IsDigit(c)

NonSlugChars == {Chars[i] : i \in 1..Len(Chars)} \ {c \in {Chars[i] : i \in 1..Len(Chars)} : IsSlugChar(c)}

\* A plausible slip: the pattern without its +, every character replaced.
RECURSIVE ReSubEachNonAlnum(_)
ReSubEachNonAlnum(s) ==
    IF s = <<>> THEN <<>>
    ELSE IF IsSlugChar(Head(s)) THEN <<Head(s)>> \o ReSubEachNonAlnum(Tail(s))
    ELSE <<"-">> \o ReSubEachNonAlnum(Tail(s))

\* re.sub(r"[^a-z0-9]+", "-", s): scanning left to right, a character of the
\* class is copied, and a maximal run of the others is replaced by one "-".
RECURSIVE ReSubNonAlnum(_)
ReSubNonAlnum(s) ==
    IF s = <<>> THEN <<>>
    ELSE IF IsSlugChar(Head(s)) THEN <<Head(s)>> \o ReSubNonAlnum(Tail(s))
    ELSE <<"-">> \o ReSubNonAlnum(LStrip(s, NonSlugChars))

_zone_identifier(country, zone) ==
    LET base == LowerStr(Format(PyOr(country, Str(T_na))) \o <<"-">>
                         \o Format(PyOr(zone, Str(T_zone))))
        slug == StripHyphens(ReSubNonAlnum(base))
    IN  IF slug = <<>> THEN T_zone ELSE slug

\* ------------------------------------------------------------------ tables
\* A DataFrame: its column names, its index labels and its rows in order,
\* each row a function from the column names to cells.
Table(cols, index, rows) == [present |-> TRUE, cols |-> cols, index |-> index, rows |-> rows]

Positions(t) == 1..Len(t.rows)

\* code point order of two texts (Python's str <)
RECURSIVE TextLess(_, _)
TextLess(a, b) ==
    IF b = <<>> THEN FALSE
    ELSE IF a = <<>> THEN TRUE
    ELSE IF Head(a) = Head(b) THEN TextLess(Tail(a), Tail(b))
    ELSE Ord(Head(a)) < Ord(Head(b))

\* The order sort_values and groupby(sort=True) put cells in: texts and
\* numbers ascending, missing values last.
CellLess(a, b) ==
    CASE IsNa(a) -> FALSE
      [] IsNa(b) -> TRUE
      [] IsStr(a) /\ IsStr(b) -> TextLess(a.s, b.s)
      [] IsNum(a) /\ IsNum(b) -> a.n * b.d < b.n * a.d
      [] OTHER -> FALSE

\* tuples of cells, compared column by column
RECURSIVE TupleLess(_, _)
TupleLess(a, b) ==
    IF a = <<>> THEN FALSE
    ELSE IF Head(a) = Head(b) THEN TupleLess(Tail(a), Tail(b))
    ELSE CellLess(Head(a), Head(b))

\* the key columns in the order the code lists them: country before zone
KeyOrder(keys) == SelectSeq(<<"country", "zone">>, LAMBDA c : c \in keys)

KeyTuple(row, keys) == [i \in 1..Len(KeyOrder(keys)) |-> row[KeyOrder(keys)[i]]]

\* a set of key tuples as the ascending sequence groupby(sort=True) yields
RECURSIVE SortTuples(_)
SortTuples(S) ==
    IF S = {} THEN <<>>
    ELSE LET m == CHOOSE x \in S : \A y \in S : y = x \/ TupleLess(x, y)
         IN  <<m>> \o SortTuples(S \ {m})

\* ------------------------------------------------------------------ _latest_snapshot
\* keys = [col for col in ("country", "zone") if col in df.columns] or ["zone"]
SnapshotKeys(t) ==
    IF {"country", "zone"} \cap t.cols = {} THEN {"zone"} ELSE {"country", "zone"} \cap t.cols

HasNaKey(row, keys) == \E k \in keys : IsNa(row[k])

\* groupby(keys) with its default dropna=True: the rows of a group, a row with
\* a missing key cell belonging to none.
GroupRows(t, keys, key) ==
    {i \in Positions(t) : ~HasNaKey(t.rows[i], keys) /\ KeyTuple(t.rows[i], keys) = key}

GroupKeySet(t, keys) ==
    {KeyTuple(t.rows[i], keys) : i \in {j \in Positions(t) : ~HasNaKey(t.rows[j], keys)}}

\* A plausible slip: the last of the rows holding the maximum.
IdxMaxLast(t, rows) ==
    LET dated == {i \in rows : NotNa(t.rows[i]["year"])}
    IN  IF dated = {} THEN 0
        ELSE CHOOSE i \in dated :
                \A j \in dated : \/ t.rows[j]["year"].n < t.rows[i]["year"].n
                                 \/ (t.rows[j]["year"].n = t.rows[i]["year"].n /\ j <= i)

\* A plausible slip: idxmin for idxmax.
IdxMin(t, rows) ==
    LET dated == {i \in rows : NotNa(t.rows[i]["year"])}
    IN  IF dated = {} THEN 0
        ELSE CHOOSE i \in dated :
                \A j \in dated : \/ t.rows[j]["year"].n > t.rows[i]["year"].n
                                 \/ (t.rows[j]["year"].n = t.rows[i]["year"].n /\ i <= j)

\* Series.idxmax over the rows of one group: the position of the first row
\* holding the largest non-missing year; 0 stands for the NaN label that an
\* all-missing group yields.
IdxMax(t, rows) ==
    LET dated == {i \in rows : NotNa(t.rows[i]["year"])}
    IN  IF dated = {} THEN 0
        ELSE CHOOSE i \in dated :
                \A j \in dated : \/ t.rows[j]["year"].n < t.rows[i]["year"].n
                                 \/ (t.rows[j]["year"].n = t.rows[i]["year"].n /\ i <= j)

\* df.groupby(keys)["year"].idxmax(): one position per group, in key order
GroupIdxMax(t, keys) ==
    LET order == SortTuples(GroupKeySet(t, keys))
    IN  [g \in 1..Len(order) |-> IdxMax(t, GroupRows(t, keys, order[g]))]

\* A plausible slip: keep="first".
KeepFirst(t, keys) ==
    LET kept(i) == \A j \in Positions(t) :
                       j < i => KeyTuple(t.rows[j], keys) # KeyTuple(t.rows[i], keys)
    IN  SelectSeq([i \in Positions(t) |-> i], kept)

\* df.drop_duplicates(keys, keep="last"): the positions kept, in input order.
\* Missing key cells compare equal here and their rows are kept.
KeepLast(t, keys) ==
    LET kept(i) == \A j \in Positions(t) :
                       j > i => KeyTuple(t.rows[j], keys) # KeyTuple(t.rows[i], keys)
    IN  SelectSeq([i \in Positions(t) |-> i], kept)

\* rename(columns=rename_map) on one column name
Renamed(col, rename_map) == IF col \in DOMAIN rename_map THEN rename_map[col] ELSE col

\* A plausible slip: the rename without the selection, every column kept.
RenameOnly(t, picked, keys, rename_map, additional_columns) ==
    LET out_cols == {Renamed(c, rename_map) : c \in t.cols}
        source(c) == CHOOSE o \in t.cols : Renamed(o, rename_map) = c
    IN  Table(out_cols,
              [i \in 1..Len(picked) |-> t.index[picked[i]]],
              [i \in 1..Len(picked) |-> [c \in out_cols |-> t.rows[picked[i]][source(c)]]])

\* latest[available_cols].rename(columns=rename_map) on the rows picked
SelectAndRename(t, picked, keys, rename_map, additional_columns) ==
    LET keep_cols == keys \cup {"year"} \cup DOMAIN rename_map \cup additional_columns
        available_cols == keep_cols \cap t.cols
        out_cols == {Renamed(c, rename_map) : c \in available_cols}
        source(c) == CHOOSE o \in available_cols : Renamed(o, rename_map) = c
    IN  Table(out_cols,
              [i \in 1..Len(picked) |-> t.index[picked[i]]],
              [i \in 1..Len(picked) |-> [c \in out_cols |-> t.rows[picked[i]][source(c)]]])

\* The outcome of _latest_snapshot(df, rename_map=..., additional_columns=...):
\* a table, or the KeyError that groupby raises for a missing key column and
\* that df.loc raises for the NaN label of a group whose years are all
\* missing (pandas 3 raises ValueError from idxmax itself instead).
_latest_snapshot(t, rename_map, additional_columns) ==
    LET keys == SnapshotKeys(t)
    IN  IF ~(keys \subseteq t.cols) THEN Raised("_latest_snapshot", "KeyError")
        ELSE IF "year" \in t.cols
        THEN LET idx == GroupIdxMax(t, keys)
             IN  IF \E g \in 1..Len(idx) : idx[g] = 0
                 THEN Raised("_latest_snapshot", "KeyError")
                 ELSE Returned("_latest_snapshot",
                               SelectAndRename(t, idx, keys, rename_map, additional_columns))
        ELSE Returned("_latest_snapshot",
                      SelectAndRename(t, KeepLast(t, keys), keys, rename_map, additional_columns))

\* ------------------------------------------------------------------ column names
\* Column names are strings; Spell gives the characters of each name the
\* model uses, for startswith, endswith and the prefix pattern.
Spell ==
    ("zone" :> <<"z", "o", "n", "e">>) @@
    ("country" :> <<"c", "o", "u", "n", "t", "r", "y">>) @@
    ("year" :> <<"y", "e", "a", "r">>) @@
    ("type" :> <<"t", "y", "p", "e">>) @@
    ("popn_total" :> <<"p", "o", "p", "n", "_", "t", "o", "t", "a", "l">>) @@
    ("municipal_coverage" :> <<"m", "u", "n", "i", "c", "i", "p", "a", "l", "_", "c", "o", "v", "e", "r", "a", "g", "e">>) @@
    ("w_safely_managed_pct" :> <<"w", "_", "s", "a", "f", "e", "l", "y", "_", "m", "a", "n", "a", "g", "e", "d", "_", "p", "c", "t">>) @@
    ("s_safely_managed_pct" :> <<"s", "_", "s", "a", "f", "e", "l", "y", "_", "m", "a", "n", "a", "g", "e", "d", "_", "p", "c", "t">>) @@
    ("safely_managed_pct" :> <<"s", "a", "f", "e", "l", "y", "_", "m", "a", "n", "a", "g", "e", "d", "_", "p", "c", "t">>) @@
    ("w_basic_pct" :> <<"w", "_", "b", "a", "s", "i", "c", "_", "p", "c", "t">>) @@
    ("s_basic_pct" :> <<"s", "_", "b", "a", "s", "i", "c", "_", "p", "c", "t">>) @@
    ("basic_pct" :> <<"b", "a", "s", "i", "c", "_", "p", "c", "t">>) @@
    ("surface_water_pct" :> <<"s", "u", "r", "f", "a", "c", "e", "_", "w", "a", "t", "e", "r", "_", "p", "c", "t">>) @@
    ("open_def_pct" :> <<"o", "p", "e", "n", "_", "d", "e", "f", "_", "p", "c", "t">>) @@
    ("w_safely_managed" :> <<"w", "_", "s", "a", "f", "e", "l", "y", "_", "m", "a", "n", "a", "g", "e", "d">>) @@
    ("s_safely_managed" :> <<"s", "_", "s", "a", "f", "e", "l", "y", "_", "m", "a", "n", "a", "g", "e", "d">>) @@
    ("safely_managed" :> <<"s", "a", "f", "e", "l", "y", "_", "m", "a", "n", "a", "g", "e", "d">>)

StartsWith(text, prefix) ==
    Len(text) >= Len(prefix) /\ SubSeq(text, 1, Len(prefix)) = prefix

EndsWith(text, suffix) ==
    Len(text) >= Len(suffix) /\ SubSeq(text, Len(text) - Len(suffix) + 1, Len(text)) = suffix

T_w_ == <<"w", "_">>
T_s_ == <<"s", "_">>
T__pct == <<"_", "p", "c", "t">>

\* ------------------------------------------------------------------ numbers
Abs(x) == IF x < 0 THEN -x ELSE x

RECURSIVE Gcd(_, _)
Gcd(a, b) == IF b = 0 THEN a ELSE Gcd(b, a % b)

\* the number n/d (d > 0) in lowest terms
Rat(n, d) ==
    LET g == Gcd(Abs(n), d)
    IN  [t |-> "num", s |-> <<>>, n |-> n \div g, d |-> d \div g]

IsFinite(v) == v.t = "num"

\* the value of a text of digits
RECURSIVE DigitsValue(_)
DigitsValue(s) ==
    IF s = <<>> THEN 0
    ELSE 10 * DigitsValue(SubSeq(s, 1, Len(s) - 1)) + (Ord(s[Len(s)]) - Ord("0"))

IsDigits(s) == s # <<>> /\ \A i \in 1..Len(s) : IsDigit(s[i])

\* A plausible slip: a percentage read as a fraction and scaled to percent.
ToNumericScaled(v) ==
    CASE v.t = "num" -> Rat(v.n * 100, v.d)
      [] v.t = "str" -> IF IsDigits(v.s) THEN Num(DigitsValue(v.s) * 100) ELSE NaN
      [] v.t = "inf" -> v
      [] v.t = "ninf" -> v
      [] OTHER -> NaN

\* pd.to_numeric(errors="coerce") on one cell: a number stays, a text of
\* digits is parsed, any other text is missing.
ToNumeric(v) ==
    CASE v.t = "num" -> v
      [] v.t = "str" -> IF IsDigits(v.s) THEN Num(DigitsValue(v.s)) ELSE NaN
      [] v.t = "inf" -> v
      [] v.t = "ninf" -> v
      [] OTHER -> NaN

\* astype(str) on one cell of a text column: a missing cell becomes the
\* text "nan"
AsTypeStr(v) ==
    CASE v.t = "str" -> v
      [] v.t = "nan" -> Str(T_nan)
      [] v.t = "none" -> Str(T_None)

\* ------------------------------------------------------------------ _normalise_access_df
StripText(v) == Str(StripSpaces(AsTypeStr(v).s))

\* frame[col] = frame[col].astype(str).str.strip(), if the column is there
StripColumn(t, col) ==
    IF col \in t.cols
    THEN [t EXCEPT !.rows = [i \in Positions(t) |-> [t.rows[i] EXCEPT ![col] = StripText(@)]]]
    ELSE t

\* frame[col] = pd.to_numeric(frame[col], errors="coerce"), if the column is there
NumericColumn(t, col) ==
    IF col \in t.cols
    THEN [t EXCEPT !.rows = [i \in Positions(t) |-> [t.rows[i] EXCEPT ![col] = ToNumeric(@)]]]
    ELSE t

\* .astype("Int64") on the year column after to_numeric: a year that is no
\* whole number, or an infinity, cannot be cast and the cast raises TypeError
Int64CastFails(t) ==
    /\ "year" \in t.cols
    /\ \E i \in Positions(t) :
          LET y == ToNumeric(t.rows[i]["year"])
          IN  y.t \in {"inf", "ninf"} \/ (y.t = "num" /\ y.d # 1)

PctCols(t, prefix, extra_pct_cols) ==
    {c \in t.cols : StartsWith(Spell[c], prefix) /\ EndsWith(Spell[c], T__pct)}
        \cup (extra_pct_cols \cap t.cols)

_normalise_access_df(t, prefix, extra_pct_cols) ==
    LET f1 == StripColumn(t, "zone")
        f2 == StripColumn(f1, "country")
        f3 == NumericColumn(f2, "year")
        pct_cols == PctCols(f3, prefix, extra_pct_cols)
    IN  [f3 EXCEPT !.rows =
            [i \in Positions(f3) |->
                [c \in f3.cols |-> IF c \in pct_cols THEN ToNumeric(f3.rows[i][c])
                                   ELSE f3.rows[i][c]]]]

\* ------------------------------------------------------------------ load_csv_data
\* The frames of the two access files, or FileNotFoundError.
load_csv_data(water, sewer) ==
    IF ~sewer.present \/ ~water.present
    THEN Raised("load_csv_data", "FileNotFoundError")
    ELSE Returned("load_csv_data", [sewer |-> sewer, water |-> water])

\* ------------------------------------------------------------------ _prepare_access_data
\* The arguments of the water call of _latest_snapshot.
WaterRenameMap ==
    ("year" :> "water_year") @@
    ("w_safely_managed_pct" :> "water_safely_pct") @@
    ("w_basic_pct" :> "water_basic_pct") @@
    ("w_limited_pct" :> "water_limited_pct") @@
    ("w_unimproved_pct" :> "water_unimproved_pct") @@
    ("surface_water_pct" :> "water_surface_pct") @@
    ("municipal_coverage" :> "water_municipal_coverage")

WaterAdditional ==
    {"municipal_coverage", "w_safely_managed", "w_basic", "w_limited", "w_unimproved", "surface_water"}

\* The arguments of the sewer call.
SewerRenameMap ==
    ("year" :> "sewer_year") @@
    ("s_safely_managed_pct" :> "sewer_safely_pct") @@
    ("s_basic_pct" :> "sewer_basic_pct") @@
    ("s_limited_pct" :> "sewer_limited_pct") @@
    ("s_unimproved_pct" :> "sewer_unimproved_pct") @@
    ("open_def_pct" :> "sewer_open_def_pct")

SewerAdditional == {"s_safely_managed", "s_basic", "s_limited", "s_unimproved", "open_def"}

\* merge_keys = [col for col in ("country", "zone") if col in both] or ["zone"]
MergeKeys(w, s) ==
    IF {"country", "zone"} \cap w.cols \cap s.cols = {} THEN {"zone"}
    ELSE {"country", "zone"} \cap w.cols \cap s.cols

\* suffixes=("", "_dup"): the name the right side's column gets when the left
\* side has a non-key column of the same name
DupName(c) ==
    CASE c = "country" -> "country_dup"
      [] c = "zone" -> "zone_dup"
      [] c = "year" -> "year_dup"

\* A plausible slip: how="left", the right side's unmatched rows dropped.
MergeEntriesLeft(w, s, on) ==
    LET same(i, j) == KeyTuple(w.rows[i], on) = KeyTuple(s.rows[j], on)
    IN  {e \in Positions(w) \X Positions(s) : same(e[1], e[2])}
        \cup {<<i, 0>> : i \in {x \in Positions(w) : \A j \in Positions(s) : ~same(x, j)}}

\* The pairs <<left position, right position>> of an outer join, 0 standing
\* for no row of that side.
MergeEntries(w, s, on) ==
    LET same(i, j) == KeyTuple(w.rows[i], on) = KeyTuple(s.rows[j], on)
    IN  {e \in Positions(w) \X Positions(s) : same(e[1], e[2])}
        \cup {<<i, 0>> : i \in {x \in Positions(w) : \A j \in Positions(s) : ~same(x, j)}}
        \cup {<<0, j>> : j \in {y \in Positions(s) : \A i \in Positions(w) : ~same(i, y)}}

EntryKey(w, s, on, e) ==
    IF e[1] # 0 THEN KeyTuple(w.rows[e[1]], on) ELSE KeyTuple(s.rows[e[2]], on)

\* how="outer" sorts the join keys lexicographically
EntryLess(w, s, on, a, b) ==
    \/ TupleLess(EntryKey(w, s, on, a), EntryKey(w, s, on, b))
    \/ /\ EntryKey(w, s, on, a) = EntryKey(w, s, on, b)
       /\ (a[1] < b[1] \/ (a[1] = b[1] /\ a[2] < b[2]))

RECURSIVE OrderEntries(_, _, _, _)
OrderEntries(E, w, s, on) ==
    IF E = {} THEN <<>>
    ELSE LET m == CHOOSE x \in E : \A y \in E : y = x \/ EntryLess(w, s, on, x, y)
         IN  <<m>> \o OrderEntries(E \ {m}, w, s, on)

\* water_latest.merge(sewer_latest, on=merge_keys, how="outer", suffixes=("", "_dup"))
MergeOuter(w, s, on) ==
    LET dup == (w.cols \cap s.cols) \ on
        right_name(c) == IF c \in dup THEN DupName(c) ELSE c
        right_cols == {right_name(c) : c \in s.cols \ on}
        right_source(c) == CHOOSE o \in s.cols \ on : right_name(o) = c
        cols == w.cols \cup right_cols
        order == OrderEntries(MergeEntries(w, s, on), w, s, on)
        cell(e, c) ==
            IF c \in on THEN (IF e[1] # 0 THEN w.rows[e[1]][c] ELSE s.rows[e[2]][c])
            ELSE IF c \in w.cols THEN (IF e[1] # 0 THEN w.rows[e[1]][c] ELSE NaN)
            ELSE (IF e[2] # 0 THEN s.rows[e[2]][right_source(c)] ELSE NaN)
    IN  Table(cols,
              [i \in 1..Len(order) |-> i - 1],
              [i \in 1..Len(order) |-> [c \in cols |-> cell(order[i], c)]])

\* zones_df["country"].fillna(zones_df["country_dup"]), then drop country_dup
FillCountryFromDup(t) ==
    LET cols == t.cols \ {"country_dup"}
    IN  [t EXCEPT !.cols = cols,
                  !.rows = [i \in Positions(t) |->
                              [c \in cols |->
                                  IF c = "country" /\ IsNa(t.rows[i]["country"])
                                  THEN t.rows[i]["country_dup"]
                                  ELSE t.rows[i][c]]]]

\* A plausible slip: the mean that counts a missing side as 0.
MeanSkipNaNot(cells) ==
    LET total == IF IsFinite(cells[1]) /\ IsFinite(cells[2]) THEN cells[1].n + cells[2].n
                 ELSE IF IsFinite(cells[1]) THEN cells[1].n
                 ELSE IF IsFinite(cells[2]) THEN cells[2].n ELSE 0
    IN  IF ~IsFinite(cells[1]) /\ ~IsFinite(cells[2]) THEN NaN ELSE Rat(total, 2)

\* DataFrame.mean(axis=1, skipna=True) over two columns of (finite or
\* missing) integers: the mean of the cells that are not missing, NaN when
\* both are.
MeanSkipNa(cells) ==
    LET present == {i \in 1..2 : IsFinite(cells[i])}
        total == IF present = {1, 2} THEN cells[1].n + cells[2].n
                 ELSE IF present = {1} THEN cells[1].n
                 ELSE IF present = {2} THEN cells[2].n ELSE 0
    IN  IF present = {} THEN NaN ELSE Rat(total, Cardinality(present))

\* zones_df.sort_values(by=...)
SortValues(t, by) ==
    LET byTuple(row) == [i \in 1..Len(KeyOrder(by)) |-> row[KeyOrder(by)[i]]]
    IN  [t EXCEPT !.rows = SortSeq(t.rows, LAMBDA a, b : TupleLess(byTuple(a), byTuple(b)))]

\* row.get(col)
RowGet(t, row, col) == IF col \in t.cols THEN row[col] ELSE None

\* float(x) if pd.notna(x) else None
ValueOrNone(v) == IF NotNa(v) THEN v ELSE None

ZoneRecord(t, row) ==
    [id |-> _zone_identifier(RowGet(t, row, "country"), RowGet(t, row, "zone")),
     name |-> RowGet(t, row, "zone"),
     country |-> RowGet(t, row, "country"),
     safeAccess |-> ValueOrNone(RowGet(t, row, "safeAccess")),
     water_safely_pct |-> ValueOrNone(RowGet(t, row, "water_safely_pct")),
     sewer_safely_pct |-> ValueOrNone(RowGet(t, row, "sewer_safely_pct")),
     water_year |-> ValueOrNone(RowGet(t, row, "water_year")),
     sewer_year |-> ValueOrNone(RowGet(t, row, "sewer_year"))]

\* lines 671-691, given the two snapshots
Reconcile(water_df, sewer_df, water_latest, sewer_latest) ==
    LET merge_keys == MergeKeys(water_latest, sewer_latest)
        merged == MergeOuter(water_latest, sewer_latest, merge_keys)
        zones_df == IF "country_dup" \in merged.cols /\ "country" \notin merge_keys
                    THEN FillCountryFromDup(merged) ELSE merged
        with_safe == [zones_df EXCEPT
                        !.cols = @ \cup {"safeAccess"},
                        !.rows = [i \in Positions(zones_df) |->
                            [c \in zones_df.cols \cup {"safeAccess"} |->
                                IF c = "safeAccess"
                                THEN MeanSkipNa(<<zones_df.rows[i]["water_safely_pct"],
                                                  zones_df.rows[i]["sewer_safely_pct"]>>)
                                ELSE zones_df.rows[i][c]]]]
        sorted == SortValues(with_safe, {"country", "zone"} \cap with_safe.cols)
    IN  IF ~(merge_keys \subseteq water_latest.cols /\ merge_keys \subseteq sewer_latest.cols)
        THEN Raised("_prepare_access_data", "KeyError")
        ELSE IF ~({"water_safely_pct", "sewer_safely_pct"} \subseteq zones_df.cols)
        THEN Raised("_prepare_access_data", "KeyError")
        ELSE Returned("_prepare_access_data",
                      [water_full |-> water_df,
                       sewer_full |-> sewer_df,
                       water_latest |-> water_latest,
                       sewer_latest |-> sewer_latest,
                       zones |-> [i \in Positions(sorted) |-> ZoneRecord(sorted, sorted.rows[i])]])

_prepare_access_data(water, sewer) ==
    LET csv_data == load_csv_data(water, sewer)
        water_df == _normalise_access_df(csv_data.val.water, T_w_, {"municipal_coverage"})
        sewer_df == _normalise_access_df(csv_data.val.sewer, T_s_, {})
        water_latest == _latest_snapshot(water_df, WaterRenameMap, WaterAdditional)
        sewer_latest == _latest_snapshot(sewer_df, SewerRenameMap, SewerAdditional)
    IN  IF ~csv_data.ok THEN Raised("_prepare_access_data", csv_data.err)
        ELSE IF Int64CastFails(csv_data.val.water) \/ Int64CastFails(csv_data.val.sewer)
        THEN Raised("_prepare_access_data", "TypeError")
        ELSE IF ~water_latest.ok THEN Raised("_prepare_access_data", water_latest.err)
        ELSE IF ~sewer_latest.ok THEN Raised("_prepare_access_data", sewer_latest.err)
        ELSE Reconcile(water_df, sewer_df, water_latest.val, sewer_latest.val)

\* ------------------------------------------------------------------ float arithmetic
\* x + y in IEEE arithmetic: NaN propagates, inf - inf is NaN
FAdd(x, y) ==
    CASE x.t = "nan" \/ y.t = "nan" -> NaN
      [] x.t = "inf" -> IF y.t = "ninf" THEN NaN ELSE PosInf
      [] x.t = "ninf" -> IF y.t = "inf" THEN NaN ELSE NegInf
      [] y.t = "inf" -> PosInf
      [] y.t = "ninf" -> NegInf
      [] OTHER -> Rat(x.n * y.d + y.n * x.d, x.d * y.d)

FSub(x, y) ==
    FAdd(x, CASE y.t = "inf" -> NegInf
              [] y.t = "ninf" -> PosInf
              [] y.t = "num" -> Rat(-y.n, y.d)
              [] OTHER -> NaN)

\* x / k for an integer k > 0, x * k
FDivInt(x, k) == IF x.t = "num" THEN Rat(x.n, x.d * k) ELSE x
FMulInt(x, k) == IF x.t = "num" THEN Rat(x.n * k, x.d) ELSE x

\* x / y where a zero or missing denominator gives a missing value: the
\* division the rates are compared against.
FDivGuarded(x, y) ==
    CASE x.t = "nan" \/ y.t = "nan" -> NaN
      [] y.t = "num" /\ y.n = 0 -> NaN
      [] x.t = "num" /\ y.t = "num" ->
            IF y.n > 0 THEN Rat(x.n * y.d, x.d * y.n) ELSE Rat(-(x.n * y.d), x.d * (-y.n))
      [] OTHER -> NaN

\* x / y as pandas divides two numeric columns: x/0 is +-inf for x # 0 and
\* NaN for x = 0, and a missing operand gives NaN.  (Operands are finite or
\* missing: the columns are read from the file.)
FDiv(x, y) ==
    CASE x.t = "nan" \/ y.t = "nan" -> NaN
      [] y.t = "num" /\ y.n = 0 ->
            IF x.n > 0 THEN PosInf ELSE IF x.n < 0 THEN NegInf ELSE NaN
      [] x.t = "num" /\ y.t = "num" ->
            IF y.n > 0 THEN Rat(x.n * y.d, x.d * y.n) ELSE Rat(-(x.n * y.d), x.d * (-y.n))
      [] OTHER -> NaN

\* the sum of a sequence of cells
RECURSIVE FSumSeq(_)
FSumSeq(cells) == IF cells = <<>> THEN Num(0) ELSE FAdd(Head(cells), FSumSeq(Tail(cells)))

NotNaNCells(cells) == SelectSeq(cells, LAMBDA v : v.t # "nan")

\* groupby(...).agg("sum"): missing cells skipped, 0 when none is left
AggSum(cells) == FSumSeq(NotNaNCells(cells))

\* A plausible slip: the mean over all the rows, the missing ones counted.
AggMeanAllRows(cells) ==
    LET kept == NotNaNCells(cells)
    IN  IF kept = <<>> THEN NaN ELSE FDivInt(FSumSeq(kept), Len(cells))

\* groupby(...).agg("mean"): missing cells skipped, NaN when none is left
AggMean(cells) ==
    LET kept == NotNaNCells(cells)
    IN  IF kept = <<>> THEN NaN ELSE FDivInt(FSumSeq(kept), Len(kept))

\* ------------------------------------------------------------------ _prepare_service_data
\* the position of row i after a stable sort by date: rows of earlier
\* periods first, rows of one period in input order
DateOf(row) == <<row["year"].n, row["month"].n>>

DateLess(a, b) == a[1] < b[1] \/ (a[1] = b[1] /\ a[2] < b[2])

RECURSIVE InsertByDate(_, _)
InsertByDate(sorted, i) ==
    IF sorted = <<>> THEN <<i>>
    ELSE IF DateLess(i[2], sorted[Len(sorted)][2]) 
         THEN InsertByDate(SubSeq(sorted, 1, Len(sorted) - 1), i) \o <<sorted[Len(sorted)]>>
         ELSE sorted \o <<i>>

RECURSIVE SortByDateFrom(_, _)
SortByDateFrom(t, n) ==
    IF n = 0 THEN <<>>
    ELSE InsertByDate(SortByDateFrom(t, n - 1), <<n, DateOf(t.rows[n])>>)

\* df.sort_values('date'): the rows reordered, each keeping its index label
SortByDate(t) ==
    LET order == SortByDateFrom(t, Len(t.rows))
    IN  [t EXCEPT !.index = [i \in 1..Len(order) |-> t.index[order[i][1]]],
                  !.rows = [i \in 1..Len(order) |-> t.rows[order[i][1]]]]

Percent(num, den) == FMulInt(FDiv(num, den), 100)

DerivedCols == {"date", "water_quality_rate", "complaint_resolution_rate", "nrw_rate", "sewer_coverage_rate"}

\* lines 602-610 on one row: the date and the four derived rates
WithDerived(row, cols) ==
    [c \in cols \cup DerivedCols |->
        CASE c = "date" -> Num(row["year"].n * 100 + row["month"].n)
          [] c = "water_quality_rate" ->
                FDivInt(FAdd(Percent(row["test_passed_chlorine"], row["tests_conducted_chlorine"]),
                             Percent(row["tests_passed_ecoli"], row["test_conducted_ecoli"])), 2)
          [] c = "complaint_resolution_rate" -> Percent(row["resolved"], row["complaints"])
          [] c = "nrw_rate" ->
                Percent(FSub(row["w_supplied"], row["total_consumption"]), row["w_supplied"])
          [] c = "sewer_coverage_rate" -> Percent(row["sewer_connections"], row["households"])
          [] OTHER -> row[c]]

ColumnCells(t, rows, col) == [i \in 1..Len(rows) |-> t.rows[rows[i]][col]]

\* groupby(...).last() on one column: the last cell of the group that is not
\* missing, NaN when all are
LastValid(cells) ==
    LET kept == NotNaNCells(cells)
    IN  IF kept = <<>> THEN NaN ELSE kept[Len(kept)]

ServiceKeyOrder == <<"country", "city", "zone">>

ServiceKey(row) == [i \in 1..3 |-> row[ServiceKeyOrder[i]]]

\* df.sort_values('date').groupby(['country', 'city', 'zone']).last().reset_index()
LatestByZone(t) ==
    LET keys == SortTuples({ServiceKey(t.rows[i]) : i \in Positions(t)})
        group(k) == SelectSeq([i \in Positions(t) |-> i], LAMBDA i : ServiceKey(t.rows[i]) = keys[k])
    IN  Table(t.cols,
              [k \in 1..Len(keys) |-> k - 1],
              [k \in 1..Len(keys) |->
                  [c \in t.cols |->
                      IF c \in {"country", "city", "zone"} THEN t.rows[group(k)[1]][c]
                      ELSE LastValid(ColumnCells(t, group(k), c))]])

SumCols == {"w_supplied", "total_consumption", "metered", "public_toilets"}
MeanCols == {"water_quality_rate", "complaint_resolution_rate", "nrw_rate", "sewer_coverage_rate"}

\* A plausible slip: the groups in descending order.
RECURSIVE SortIntsDescending(_)
SortIntsDescending(S) ==
    IF S = {} THEN <<>>
    ELSE LET m == CHOOSE x \in S : \A y \in S : x >= y
         IN  <<m>> \o SortIntsDescending(S \ {m})

\* the dates of a table, ascending
RECURSIVE SortInts(_)
SortInts(S) ==
    IF S = {} THEN <<>>
    ELSE LET m == CHOOSE x \in S : \A y \in S : x <= y
         IN  <<m>> \o SortInts(S \ {m})

\* df.groupby('date').agg({...}).reset_index()
TimeSeries(t) ==
    LET dates == SortInts({t.rows[i]["date"].n : i \in Positions(t)})
        group(k) == SelectSeq([i \in Positions(t) |-> i], LAMBDA i : t.rows[i]["date"].n = dates[k])
        cols == {"date"} \cup SumCols \cup MeanCols
    IN  Table(cols,
              [k \in 1..Len(dates) |-> k - 1],
              [k \in 1..Len(dates) |->
                  [c \in cols |->
                      IF c = "date" THEN Num(dates[k])
                      ELSE IF c \in SumCols THEN AggSum(ColumnCells(t, group(k), c))
                      ELSE AggMean(ColumnCells(t, group(k), c))]])

\* sorted(df[col].unique())
SortedUnique(t, col) ==
    LET vals == SortTuples({<<t.rows[i][col]>> : i \in Positions(t)})
    IN  [i \in 1..Len(vals) |-> vals[i][1]]

\* The body of _prepare_service_data: FileNotFoundError, or the dictionary.
PrepareServiceBody(service) ==
    IF ~service.present THEN Raised("_prepare_service_data", "FileNotFoundError")
    ELSE LET cols == service.cols \cup DerivedCols
             derived == [service EXCEPT
                            !.cols = cols,
                            !.rows = [i \in Positions(service) |-> WithDerived(service.rows[i], service.cols)]]
             full == SortByDate(derived)
         IN  Returned("_prepare_service_data",
                      [full_data |-> full,
                       latest_by_zone |-> LatestByZone(full),
                       time_series |-> TimeSeries(full),
                       zones |-> SortedUnique(full, "zone"),
                       cities |-> SortedUnique(full, "city"),
                       countries |-> SortedUnique(full, "country")])

\* ------------------------------------------------------------------ _load_access_kpi_data
T_w_access == <<"w", "_", "a", "c", "c", "e", "s", "s">>
T_s_access == <<"s", "_", "a", "c", "c", "e", "s", "s">>
T_water == <<"w", "a", "t", "e", "r">>
T_sewer == <<"s", "e", "w", "e", "r">>

\* the column name spelled by a text
NameOf(text) == CHOOSE c \in DOMAIN Spell : Spell[c] = text

\* str.replace(r"^(w_|s_)", "", regex=True) on the text of one column name
StripPrefixText(text) ==
    IF StartsWith(text, T_w_) \/ StartsWith(text, T_s_)
    THEN SubSeq(text, 3, Len(text))
    ELSE text

\* the same on a column name of the model
StripAccessPrefix(c) == NameOf(StripPrefixText(Spell[c]))

\* frame.columns = frame.columns.str.replace(...): each column under its new name
RenameColumns(t) ==
    LET cols == {StripAccessPrefix(c) : c \in t.cols}
        old(c) == CHOOSE o \in t.cols : StripAccessPrefix(o) = c
    IN  [t EXCEPT !.cols = cols,
                  !.rows = [i \in Positions(t) |-> [c \in cols |-> t.rows[i][old(c)]]]]

\* pd.concat(frames, ignore_index=True): the union of the columns, a cell of a
\* column its frame lacks being missing, and a fresh RangeIndex
Concat(frames) ==
    LET cols == UNION {frames[k].cols : k \in 1..Len(frames)}
        widen(t) == [i \in Positions(t) |->
                        [c \in cols |-> IF c \in t.cols THEN t.rows[i][c] ELSE NaN]]
        RECURSIVE allRows(_)
        allRows(k) == IF k = 0 THEN <<>> ELSE allRows(k - 1) \o widen(frames[k])
        rows == allRows(Len(frames))
    IN  Table(cols, [i \in 1..Len(rows) |-> i - 1], rows)

\* astype("string").str.strip() on one cell: a missing cell stays missing
StringStrip(v) == IF v.t = "str" THEN Str(StripSpaces(v.s)) ELSE v

StringStripColumn(t, col) ==
    IF col \in t.cols
    THEN [t EXCEPT !.rows = [i \in Positions(t) |-> [t.rows[i] EXCEPT ![col] = StringStrip(@)]]]
    ELSE t

\* .str.lower().replace({"w_access": "water", "s_access": "sewer"}) on one cell
AccessType(v) ==
    IF v.t # "str" THEN v
    ELSE LET low == LowerStr(v.s)
         IN  CASE low = T_w_access -> Str(T_water)
               [] low = T_s_access -> Str(T_sewer)
               [] OTHER -> Str(low)

AccessTypeColumn(t) ==
    IF "type" \in t.cols
    THEN [t EXCEPT !.rows = [i \in Positions(t) |-> [t.rows[i] EXCEPT !["type"] = AccessType(@)]]]
    ELSE t

KpiNumericCols(t) ==
    {c \in t.cols : EndsWith(Spell[c], T__pct)}
        \cup {"popn_total", "surface_water", "safely_managed", "open_def", "unimproved"}

RECURSIVE NumericColumns(_, _)
NumericColumns(t, cols) ==
    IF cols = {} THEN t
    ELSE LET c == CHOOSE c \in cols : TRUE
         IN  NumericColumns(NumericColumn(t, c), cols \ {c})

EmptyFrame == Table({}, <<>>, <<>>)

\* The body of _load_access_kpi_data: a file that is not there is skipped.
LoadAccessKpiBody(water, sewer) ==
    LET files == <<water, sewer>>
        there == SelectSeq(files, LAMBDA f : f.present)
        frames == [k \in 1..Len(there) |-> RenameColumns(there[k])]
    IN  IF frames = <<>> THEN Returned("_load_access_kpi_data", EmptyFrame)
        ELSE IF Int64CastFails(RenameColumns(Concat(frames)))
        THEN Raised("_load_access_kpi_data", "TypeError")
        ELSE LET f0 == RenameColumns(Concat(frames))
                 f1 == NumericColumn(f0, "year")
                 f2 == StringStripColumn(StringStripColumn(StringStripColumn(f1, "zone"), "country"), "type")
                 f3 == AccessTypeColumn(f2)
             IN  Returned("_load_access_kpi_data", NumericColumns(f3, KpiNumericCols(f3)))

\* ------------------------------------------------------------------ st.cache_data
\* A function without arguments under @st.cache_data: the first call that
\* returns stores its value; every later call returns the stored value and
\* does not run the body.  A call that raises stores nothing.
CachedCall(entry, body) == IF entry.cached THEN entry.val ELSE body

CacheAfter(entry, body) ==
    IF entry.cached THEN entry
    ELSE IF body.ok THEN [cached |-> TRUE, val |-> body] ELSE entry

\* ------------------------------------------------------------------ SpecSnapshot
SeqsUpTo(S, n) == UNION {[1..k -> S] : k \in 0..n}

SnapCountries == {Str(<<"A">>), NaN}
SnapZones == {Str(<<"y">>), Str(<<"z">>)}
SnapYears == {Num(2021), Num(2022), NaN}

\* The column sets enumerated: country and year are each there or not;
\* popn_total is a column outside the keep-set.
SnapColSets ==
    {{"zone", "w_safely_managed_pct", "popn_total"} \cup opt : opt \in SUBSET {"country", "year"}}

\* A table with a RangeIndex whose i-th row holds the i-th <<country, zone,
\* year>> and a percentage and a population that tell the rows apart.
SnapTable(cols, spec) ==
    Table(cols,
          [i \in 1..Len(spec) |-> i - 1],
          [i \in 1..Len(spec) |->
              [c \in cols |->
                  CASE c = "country" -> spec[i][1]
                    [] c = "zone" -> spec[i][2]
                    [] c = "year" -> spec[i][3]
                    [] c = "w_safely_managed_pct" -> Num(40 + i)
                    [] c = "popn_total" -> Num(1000 * i)]])

SnapTables ==
    {SnapTable(cols, spec) :
        cols \in SnapColSets,
        spec \in SeqsUpTo(SnapCountries \X SnapZones \X SnapYears, MaxSnapRows)}

SnapInit ==
    /\ df \in SnapTables
    /\ latest = NotCalled
    /\ SlugIdle /\ FilesIdle /\ CacheIdle /\ SessionIdle /\ ret = NotCalled

CallLatestSnapshot ==
    /\ latest = NotCalled
    /\ latest' = _latest_snapshot(df, WaterRenameMap, WaterAdditional)
    /\ UNCHANGED <<df, slugVars, fileVars, cacheVars, ret, sessVars>>

SnapNext == CallLatestSnapshot

SpecSnapshot == SnapInit /\ [][SnapNext]_vars

\* ------------------------------------------------------------------ C1, C2, C3
\* the distinct keys of the input, a missing key cell being a key value too
InputKeys(t) == {KeyTuple(t.rows[i], SnapshotKeys(t)) : i \in Positions(t)}

OutputRowsOfKey(out, keys, key) == {i \in Positions(out) : KeyTuple(out.rows[i], keys) = key}

\* C1: for every input table, _latest_snapshot returns exactly one row per
\* distinct key of the input: as many rows as distinct keys, no key twice.
C1_OneRowPerKey ==
    latest # NotCalled =>
        /\ latest.ok
        /\ Len(latest.val.rows) = Cardinality(InputKeys(df))
        /\ \A key \in InputKeys(df) :
              Cardinality(OutputRowsOfKey(latest.val, SnapshotKeys(df), key)) = 1

\* the groups of the input that hold at least one non-missing year
DatedGroups(t) ==
    {key \in GroupKeySet(t, SnapshotKeys(t)) :
        \E i \in GroupRows(t, SnapshotKeys(t), key) : NotNa(t.rows[i]["year"])}

\* the groups of the input whose years are all missing
UndatedGroups(t) == GroupKeySet(t, SnapshotKeys(t)) \ DatedGroups(t)

\* the first row, in input order, that holds the largest year of a group
FirstMaxRow(t, key) ==
    LET rows == GroupRows(t, SnapshotKeys(t), key)
        dated == {i \in rows : NotNa(t.rows[i]["year"])}
        top == {i \in dated : \A j \in dated : t.rows[j]["year"].n <= t.rows[i]["year"].n}
    IN  CHOOSE i \in top : \A j \in top : i <= j

ReturnsFirstMaxRow(t, out, key) ==
    LET got == OutputRowsOfKey(out, SnapshotKeys(t), key)
    IN  /\ Cardinality(got) = 1
        /\ \A i \in got : out.index[i] = t.index[FirstMaxRow(t, key)]

\* C2: for every key group that has at least one non-missing year,
\* _latest_snapshot returns the row holding the group's maximum year, the
\* first such row in input order when several share it.
C2_MaxYearFirstWins ==
    (latest # NotCalled /\ "year" \in df.cols) =>
        \A key \in DatedGroups(df) :
            latest.ok /\ ReturnsFirstMaxRow(df, latest.val, key)

\* What the code does keep of C2: whenever the call returns, every group's
\* row is the first row holding the group's largest year.
C2_WhenReturned ==
    (latest # NotCalled /\ latest.ok /\ "year" \in df.cols) =>
        /\ DatedGroups(df) = GroupKeySet(df, SnapshotKeys(df))
        /\ Len(latest.val.rows) = Cardinality(DatedGroups(df))
        /\ \A key \in DatedGroups(df) : ReturnsFirstMaxRow(df, latest.val, key)

\* C3: when the table has a year column but every year of some key group is
\* missing, _latest_snapshot still returns exactly one row for that key and
\* does not raise.
C3_MissingYearsOneRow ==
    (latest # NotCalled /\ "year" \in df.cols) =>
        \A key \in UndatedGroups(df) :
            /\ latest.ok
            /\ Cardinality(OutputRowsOfKey(latest.val, SnapshotKeys(df), key)) = 1

\* What the code does instead: a group whose years are all missing makes the
\* call raise.
C3_Raises ==
    (latest # NotCalled /\ "year" \in df.cols /\ UndatedGroups(df) # {}) => ~latest.ok

\* ------------------------------------------------------------------ SpecAccess
T_Uganda == <<"U", "g", "a", "n", "d", "a">>
T_Malawi == <<"M", "a", "l", "a", "w", "i">>
T_Malawi_padded == <<" ", "M", "a", "l", "a", "w", "i">>
T_Lilongwe == <<"L", "i", "l", "o", "n", "g", "w", "e">>
T_Kampala == <<"K", "a", "m", "p", "a", "l", "a">>
T_n_a == <<"n", "/", "a">>

\* The rows a water file is made of, each <<country, zone, year, percentage>>
\* as read_csv reads them: an empty cell is NaN, a cell that is no number is
\* a text.
WaterRowSpecs ==
    {<<Str(T_Malawi), Str(T_Lilongwe), Num(2023), Num(40)>>,
     <<Str(T_Malawi), Str(T_Lilongwe), Num(2024), Num(45)>>,
     <<Str(T_Uganda), Str(T_Lilongwe), Num(2024), Num(70)>>,
     <<Str(T_Uganda), Str(T_Kampala), Num(2023), NaN>>,
     <<Str(T_Malawi_padded), Str(T_Lilongwe), Num(2024), Str(T_n_a)>>,
     <<NaN, Str(T_Kampala), Str(T_n_a), Num(50)>>}

SewerRowSpecs ==
    {<<Str(T_Malawi), Str(T_Lilongwe), Num(2024), Num(50)>>,
     <<Str(T_Uganda), Str(T_Lilongwe), Num(2022), Num(50)>>,
     <<Str(T_Uganda), Str(T_Kampala), Num(2023), NaN>>,
     <<NaN, Str(T_Kampala), Num(2023), Num(30)>>}

\* The files are enumerated with and without a country column.
AccessColSets(pct) == {{"zone", "year", pct} \cup opt : opt \in SUBSET {"country"}}

FileTable(cols, pct, spec) ==
    Table(cols,
          [i \in 1..Len(spec) |-> i - 1],
          [i \in 1..Len(spec) |->
              [c \in cols |->
                  CASE c = "country" -> spec[i][1]
                    [] c = "zone" -> spec[i][2]
                    [] c = "year" -> spec[i][3]
                    [] c = pct -> spec[i][4]]])

WaterFiles ==
    {Absent} \cup
    {FileTable(cols, "w_safely_managed_pct", spec) :
        cols \in AccessColSets("w_safely_managed_pct"),
        spec \in SeqsUpTo(WaterRowSpecs, MaxWaterRows)}

SewerFiles ==
    {Absent} \cup
    {FileTable(cols, "s_safely_managed_pct", spec) :
        cols \in AccessColSets("s_safely_managed_pct"),
        spec \in SeqsUpTo(SewerRowSpecs, MaxSewerRows)}

AccessInit ==
    /\ waterFile \in WaterFiles
    /\ sewerFile \in SewerFiles
    /\ serviceFile = Absent
    /\ ret = NotCalled
    /\ SlugIdle /\ SnapIdle /\ CacheIdle /\ SessionIdle

CallPrepareAccessData ==
    /\ ret = NotCalled
    /\ ret' = _prepare_access_data(waterFile, sewerFile)
    /\ UNCHANGED <<slugVars, snapVars, fileVars, cacheVars, sessVars>>

AccessNext == CallPrepareAccessData

SpecAccess == AccessInit /\ [][AccessNext]_vars

AccessReturned == ret.fn = "_prepare_access_data" /\ ret.ok

\* ------------------------------------------------------------------ C4
\* the cell of a record under a key column's name
RecordKeyCell(r, c) == IF c = "country" THEN r.country ELSE r.name

\* The value a snapshot holds for a record's key: the cell of col in the
\* snapshot's row that agrees with the record on the snapshot's own key
\* columns, missing when the snapshot has no such row.
SideValue(snapshot, col, r) ==
    LET keys == {"country", "zone"} \cap snapshot.cols
        rows == {i \in Positions(snapshot) :
                    \A k \in keys : snapshot.rows[i][k] = RecordKeyCell(r, k)}
    IN  IF rows = {} THEN NaN ELSE snapshot.rows[CHOOSE i \in rows : TRUE][col]

SafeAccessOf(w, s, safe) ==
    /\ (IsFinite(w) /\ IsFinite(s)) =>
          IsFinite(safe) /\ 2 * safe.n * w.d * s.d = (w.n * s.d + s.n * w.d) * safe.d
    /\ (IsFinite(w) /\ IsNa(s)) => safe = w
    /\ (IsNa(w) /\ IsFinite(s)) => safe = s
    /\ (IsNa(w) /\ IsNa(s)) => safe = None

\* C4: with w the water and s the sewer safely-managed value of a zone key,
\* the zone record's safeAccess is (w+s)/2 when both are present, the present
\* one when exactly one is missing, and null when both are missing.
C4_SafeAccessMean ==
    AccessReturned =>
        \A i \in 1..Len(ret.val.zones) :
            SafeAccessOf(SideValue(ret.val.water_latest, "water_safely_pct", ret.val.zones[i]),
                         SideValue(ret.val.sewer_latest, "sewer_safely_pct", ret.val.zones[i]),
                         ret.val.zones[i].safeAccess)

\* Water 70 and sewer 50 have given 60 for one zone, and a zone with water 40
\* and no sewer value has got 40.
C4_Witness ==
    /\ AccessReturned
    /\ \E i \in 1..Len(ret.val.zones) :
          /\ ret.val.zones[i].water_safely_pct = Num(70)
          /\ ret.val.zones[i].sewer_safely_pct = Num(50)
          /\ ret.val.zones[i].safeAccess = Num(60)
    /\ \E i \in 1..Len(ret.val.zones) :
          /\ ret.val.zones[i].water_safely_pct = Num(40)
          /\ ret.val.zones[i].sewer_safely_pct = None
          /\ ret.val.zones[i].safeAccess = Num(40)

\* ------------------------------------------------------------------ C5
\* the key of a record / of a snapshot row over the merge keys
RecordKey(r, on) == [i \in 1..Len(KeyOrder(on)) |-> RecordKeyCell(r, KeyOrder(on)[i])]

SnapshotKeySet(snapshot, on) == {KeyTuple(snapshot.rows[i], on) : i \in Positions(snapshot)}

RecordsOfKey(zones, on, key) == {i \in 1..Len(zones) : RecordKey(zones[i], on) = key}

OneRecordPerKey(val) ==
    LET on == MergeKeys(val.water_latest, val.sewer_latest)
        keys == SnapshotKeySet(val.water_latest, on) \cup SnapshotKeySet(val.sewer_latest, on)
    IN  /\ Len(val.zones) = Cardinality(keys)
        /\ \A key \in keys : Cardinality(RecordsOfKey(val.zones, on, key)) = 1

\* C5 as stated: the reconciled zone list has exactly one record per distinct key (over
\* the key columns present in both snapshots) that appears in the water or in
\* the sewer snapshot: a one-sided key is kept, none is lost or duplicated.
C5_OneRecordPerKey == AccessReturned => OneRecordPerKey(ret.val)

SameKeyColumns(val) ==
    {"country", "zone"} \cap val.water_latest.cols = {"country", "zone"} \cap val.sewer_latest.cols

\* a record agrees with a snapshot row on the snapshot's own key columns
OfSnapshotRow(r, snapshot, i) ==
    \A k \in {"country", "zone"} \cap snapshot.cols : snapshot.rows[i][k] = RecordKeyCell(r, k)

CarriesWaterRow(r, snapshot, i) ==
    /\ OfSnapshotRow(r, snapshot, i)
    /\ r.water_safely_pct = ValueOrNone(snapshot.rows[i]["water_safely_pct"])
    /\ r.water_year = ValueOrNone(snapshot.rows[i]["water_year"])

CarriesSewerRow(r, snapshot, i) ==
    /\ OfSnapshotRow(r, snapshot, i)
    /\ r.sewer_safely_pct = ValueOrNone(snapshot.rows[i]["sewer_safely_pct"])
    /\ r.sewer_year = ValueOrNone(snapshot.rows[i]["sewer_year"])

\* C5 as amended: the zone list is the full outer join of the two snapshots
\* on the key columns present in both.  Every row of either snapshot is
\* carried by a record and every record carries a row; a key present on one
\* side only is kept with the other side's fields null; no two records have
\* the same (country, zone); and when both snapshots have the same key
\* columns there is exactly one record per distinct key of either snapshot.
C5_OuterJoin ==
    AccessReturned =>
        LET w == ret.val.water_latest
            s == ret.val.sewer_latest
            zones == ret.val.zones
            on == MergeKeys(w, s)
        IN  /\ \A i \in Positions(w) : \E j \in 1..Len(zones) : CarriesWaterRow(zones[j], w, i)
            /\ \A i \in Positions(s) : \E j \in 1..Len(zones) : CarriesSewerRow(zones[j], s, i)
            /\ \A j \in 1..Len(zones) :
                  \/ \E i \in Positions(w) : CarriesWaterRow(zones[j], w, i)
                  \/ \E i \in Positions(s) : CarriesSewerRow(zones[j], s, i)
            /\ \A j \in 1..Len(zones) :
                  /\ RecordKey(zones[j], on) \notin SnapshotKeySet(w, on) =>
                        zones[j].water_safely_pct = None /\ zones[j].water_year = None
                  /\ RecordKey(zones[j], on) \notin SnapshotKeySet(s, on) =>
                        zones[j].sewer_safely_pct = None /\ zones[j].sewer_year = None
            /\ \A j, k \in 1..Len(zones) :
                  (zones[j].country = zones[k].country /\ zones[j].name = zones[k].name) => j = k
            /\ SameKeyColumns(ret.val) => OneRecordPerKey(ret.val)

\* Both files have a country column, and the list holds a record of a key in
\* both snapshots, one of a water-only key and one of a sewer-only key.
C5_Witness ==
    /\ AccessReturned
    /\ "country" \in ret.val.water_latest.cols \cap ret.val.sewer_latest.cols
    /\ \E j \in 1..Len(ret.val.zones) :
          ret.val.zones[j].water_year # None /\ ret.val.zones[j].sewer_year # None
    /\ \E j \in 1..Len(ret.val.zones) :
          ret.val.zones[j].water_year # None /\ ret.val.zones[j].sewer_year = None
    /\ \E j \in 1..Len(ret.val.zones) :
          ret.val.zones[j].water_year = None /\ ret.val.zones[j].sewer_year # None

\* ------------------------------------------------------------------ C6
\* The water file of the scenario: Lilongwe (Malawi), 40 in 2023 and 45 in 2024.
LilongweWaterFile ==
    FileTable({"country", "zone", "year", "w_safely_managed_pct"}, "w_safely_managed_pct",
              <<<<Str(T_Malawi), Str(T_Lilongwe), Num(2023), Num(40)>>,
                <<Str(T_Malawi), Str(T_Lilongwe), Num(2024), Num(45)>>>>)

LilongweRecord(r) ==
    /\ r.name = Str(T_Lilongwe)
    /\ r.country = Str(T_Malawi)
    /\ r.water_safely_pct = Num(45)
    /\ r.water_year = Num(2024)
    /\ r.sewer_safely_pct = None
    /\ r.safeAccess = Num(45)

OneLilongweRecord ==
    /\ AccessReturned
    /\ Len(ret.val.zones) = 1
    /\ LilongweRecord(ret.val.zones[1])

ServiceCols ==
    {"country", "city", "zone", "year", "month",
     "test_passed_chlorine", "tests_conducted_chlorine",
     "tests_passed_ecoli", "test_conducted_ecoli",
     "resolved", "complaints", "w_supplied", "total_consumption",
     "sewer_connections", "households", "metered", "public_toilets"}

\* The counts a service row can hold, by name: chlorine tests passed and
\* conducted, E. coli tests passed and conducted, complaints resolved and
\* received, water supplied and consumed, sewer connections and households,
\* metered connections.
Counts(tpc, tcc, tpe, tce, res, com, sup, con, sew, hh, met) ==
    [test_passed_chlorine |-> tpc, tests_conducted_chlorine |-> tcc,
     tests_passed_ecoli |-> tpe, test_conducted_ecoli |-> tce,
     resolved |-> res, complaints |-> com,
     w_supplied |-> sup, total_consumption |-> con,
     sewer_connections |-> sew, households |-> hh, metered |-> met]

\* a month of ordinary counts
CountsOrdinary ==
    Counts(Num(9), Num(10), Num(8), Num(10), Num(3), Num(4), Num(100), Num(80), Num(50), Num(200), Num(10))

\* a month in which every rate is at its best
CountsFull ==
    Counts(Num(10), Num(10), Num(10), Num(10), Num(4), Num(4), Num(100), Num(100), Num(200), Num(200), Num(20))

\* a month in which nothing was measured: every count is zero
CountsIdle ==
    Counts(Num(0), Num(0), Num(0), Num(0), Num(0), Num(0), Num(0), Num(0), Num(0), Num(0), Num(0))

\* a month with no new complaint in which two older ones were resolved
CountsBacklog ==
    Counts(Num(9), Num(10), Num(8), Num(10), Num(2), Num(0), Num(100), Num(80), Num(50), Num(200), Num(10))

\* a month in which no supply was recorded although consumption was billed
CountsOutage ==
    Counts(Num(9), Num(10), Num(8), Num(10), Num(3), Num(4), Num(0), Num(80), Num(50), Num(200), Num(10))

\* a month whose denominators were left empty in the file
CountsMissing ==
    Counts(Num(9), NaN, Num(8), NaN, Num(3), NaN, NaN, Num(80), Num(50), NaN, NaN)

ServiceCounts == {CountsOrdinary, CountsFull, CountsIdle, CountsBacklog, CountsOutage, CountsMissing}

ServiceMonths == {1, 2}
ServiceZones == {Str(T_Kampala), Str(T_Lilongwe)}

\* the rows a service file is made of, each <<month, zone, counts>>
ServiceRowSpecs == ServiceMonths \X ServiceZones \X ServiceCounts

ServiceTable(spec) ==
    Table(ServiceCols,
          [i \in 1..Len(spec) |-> i - 1],
          [i \in 1..Len(spec) |->
              [c \in ServiceCols |->
                  CASE c = "country" -> Str(T_Uganda)
                    [] c = "city" -> Str(T_Kampala)
                    [] c = "zone" -> spec[i][2]
                    [] c = "year" -> Num(2024)
                    [] c = "month" -> Num(spec[i][1])
                    [] c = "public_toilets" -> Num(2)
                    [] OTHER -> spec[i][3][c]]])

ServiceFiles == {Absent} \cup {ServiceTable(spec) : spec \in SeqsUpTo(ServiceRowSpecs, MaxServiceRows)}

ServiceInit ==
    /\ serviceFile \in ServiceFiles
    /\ waterFile = Absent /\ sewerFile = Absent
    /\ ret = NotCalled
    /\ SlugIdle /\ SnapIdle /\ CacheIdle /\ SessionIdle

\* _prepare_service_data(), through its cache
CallPrepareServiceData ==
    /\ ret' = CachedCall(serviceCache, PrepareServiceBody(serviceFile))
    /\ serviceCache' = CacheAfter(serviceCache, PrepareServiceBody(serviceFile))
    /\ UNCHANGED <<slugVars, snapVars, fileVars, kpiCache, sessVars>>

FirstServiceCall == ret = NotCalled /\ CallPrepareServiceData

ServiceNext == FirstServiceCall

SpecService == ServiceInit /\ [][ServiceNext]_vars

\* ------------------------------------------------------------------ C7
\* the denominators of each derived rate
Denominators(rate) ==
    CASE rate = "water_quality_rate" -> {"tests_conducted_chlorine", "test_conducted_ecoli"}
      [] rate = "complaint_resolution_rate" -> {"complaints"}
      [] rate = "nrw_rate" -> {"w_supplied"}
      [] rate = "sewer_coverage_rate" -> {"households"}

IsZeroOrMissing(v) == v.t = "nan" \/ (v.t = "num" /\ v.n = 0)

BadDenominator(row, rate) == \E c \in Denominators(rate) : IsZeroOrMissing(row[c])

\* the rate of a row whose zero or missing denominator counts as missing
GuardedRate(row, rate) ==
    LET pct(a, b) == FMulInt(FDivGuarded(row[a], row[b]), 100)
    IN  CASE rate = "water_quality_rate" ->
                FDivInt(FAdd(pct("test_passed_chlorine", "tests_conducted_chlorine"),
                             pct("tests_passed_ecoli", "test_conducted_ecoli")), 2)
          [] rate = "complaint_resolution_rate" -> pct("resolved", "complaints")
          [] rate = "nrw_rate" ->
                FMulInt(FDivGuarded(FSub(row["w_supplied"], row["total_consumption"]), row["w_supplied"]), 100)
          [] rate = "sewer_coverage_rate" -> pct("sewer_connections", "households")

\* the mean of a rate over the rows of one period that have a usable
\* denominator, missing when there is none
GuardedPeriodMean(t, date, rate) ==
    LET rows == SelectSeq([i \in Positions(t) |-> i],
                          LAMBDA i : t.rows[i]["date"].n = date /\ ~BadDenominator(t.rows[i], rate))
    IN  AggMean([i \in 1..Len(rows) |-> GuardedRate(t.rows[rows[i]], rate)])

ServiceReturned == ret.fn = "_prepare_service_data" /\ ret.ok

\* C7: in the period aggregation of service data, a row whose ratio
\* denominator is zero or missing has a missing ratio, and each period's mean
\* is the mean over the other rows: no infinity, no 0, no exception.
C7_ZeroDenominatorMissing ==
    (ret.fn = "_prepare_service_data" /\ serviceFile.present) =>
        /\ ret.ok
        /\ \A i \in Positions(ret.val.full_data), rate \in MeanCols :
              BadDenominator(ret.val.full_data.rows[i], rate)
                  => ret.val.full_data.rows[i][rate] = NaN
        /\ \A k \in Positions(ret.val.time_series), rate \in MeanCols :
              ret.val.time_series.rows[k][rate]
                  = GuardedPeriodMean(ret.val.full_data, ret.val.time_series.rows[k]["date"].n, rate)

\* What the code does keep of C7: a missing denominator, or a zero one under
\* a zero numerator, gives a missing ratio, and the call never raises.
C7_MissingOrZeroOverZero ==
    (ret.fn = "_prepare_service_data" /\ serviceFile.present) =>
        /\ ret.ok
        /\ \A i \in Positions(ret.val.full_data) :
              LET row == ret.val.full_data.rows[i]
              IN  /\ (row["complaints"].t = "nan" \/ (row["complaints"] = Num(0) /\ row["resolved"] = Num(0)))
                        => row["complaint_resolution_rate"] = NaN
                  /\ (row["households"].t = "nan" \/ (row["households"] = Num(0) /\ row["sewer_connections"] = Num(0)))
                        => row["sewer_coverage_rate"] = NaN

\* ------------------------------------------------------------------ SpecLoaders
\* The access files the loaders are run on carry a type column.
WithType(t, type) ==
    [t EXCEPT !.cols = @ \cup {"type"},
              !.rows = [i \in Positions(t) |->
                           [c \in t.cols \cup {"type"} |-> IF c = "type" THEN type ELSE t.rows[i][c]]]]

T_W_access_padded == <<"W", "_", "a", "c", "c", "e", "s", "s", " ">>

LoaderWaterFiles ==
    {Absent,
     WithType(FileTable({"country", "zone", "year", "w_safely_managed_pct"}, "w_safely_managed_pct",
                        <<(<<Str(T_Malawi_padded), Str(T_Lilongwe), Num(2024), Num(45)>>)>>),
              Str(T_W_access_padded)),
     WithType(FileTable({"country", "zone", "year", "w_safely_managed_pct"}, "w_safely_managed_pct",
                        <<(<<Str(T_Malawi), Str(T_Lilongwe), Num(2024), Str(T_n_a)>>),
                          (<<Str(T_Uganda), Str(T_Kampala), Str(T_n_a), Num(70)>>)>>),
              Str(T_w_access))}

LoaderSewerFiles ==
    {Absent,
     WithType(FileTable({"zone", "year", "s_safely_managed_pct"}, "s_safely_managed_pct",
                        <<(<<NaN, Str(T_Kampala), Num(2023), Num(30)>>)>>),
              Str(T_s_access))}

LoaderServiceFiles ==
    {Absent,
     ServiceTable(<<(<<1, Str(T_Kampala), CountsOrdinary>>)>>),
     ServiceTable(<<(<<1, Str(T_Kampala), CountsOrdinary>>), (<<2, Str(T_Kampala), CountsBacklog>>)>>)}

LoadersInit ==
    /\ waterFile \in LoaderWaterFiles
    /\ sewerFile \in LoaderSewerFiles
    /\ serviceFile \in LoaderServiceFiles
    /\ ret = NotCalled
    /\ SlugIdle /\ SnapIdle /\ CacheIdle /\ SessionIdle

\* The files change outside the program: one is written, replaced or removed.
ChangeWaterFile ==
    /\ \E f \in LoaderWaterFiles \ {waterFile} : waterFile' = f
    /\ ret' = NotCalled
    /\ UNCHANGED <<slugVars, snapVars, sewerFile, serviceFile, cacheVars, sessVars>>

ChangeSewerFile ==
    /\ \E f \in LoaderSewerFiles \ {sewerFile} : sewerFile' = f
    /\ ret' = NotCalled
    /\ UNCHANGED <<slugVars, snapVars, waterFile, serviceFile, cacheVars, sessVars>>

ChangeServiceFile ==
    /\ \E f \in LoaderServiceFiles \ {serviceFile} : serviceFile' = f
    /\ ret' = NotCalled
    /\ UNCHANGED <<slugVars, snapVars, waterFile, sewerFile, cacheVars, sessVars>>

\* load_csv_data(), which is not memoised
CallLoadCsvData ==
    /\ ret' = load_csv_data(waterFile, sewerFile)
    /\ UNCHANGED <<slugVars, snapVars, fileVars, cacheVars, sessVars>>

\* _load_access_kpi_data(), through its cache
CallLoadAccessKpiData ==
    /\ ret' = CachedCall(kpiCache, LoadAccessKpiBody(waterFile, sewerFile))
    /\ kpiCache' = CacheAfter(kpiCache, LoadAccessKpiBody(waterFile, sewerFile))
    /\ UNCHANGED <<slugVars, snapVars, fileVars, serviceCache, sessVars>>

LoadersNext ==
    \/ ChangeWaterFile
    \/ ChangeSewerFile
    \/ ChangeServiceFile
    \/ CallLoadCsvData
    \/ CallLoadAccessKpiData
    \/ CallPrepareServiceData

SpecLoaders == LoadersInit /\ [][LoadersNext]_vars

\* ------------------------------------------------------------------ C8
\* the files a loader needs
NeededFiles(fn) ==
    CASE fn = "load_csv_data" -> {waterFile, sewerFile}
      [] fn = "_load_access_kpi_data" -> {waterFile, sewerFile}
      [] fn = "_prepare_service_data" -> {serviceFile}
      [] OTHER -> {}

SignalsFileNotFound(r) == ~r.ok /\ r.err = "FileNotFoundError"

\* C8: whenever a file a loader needs is absent, the loader's call signals
\* FileNotFound to its caller and returns no result built without the file.
C8_MissingFileSignalled ==
    (\E f \in NeededFiles(ret.fn) : ~f.present) => SignalsFileNotFound(ret)

\* What the code does keep of C8: load_csv_data, which is not memoised and
\* skips nothing, signals FileNotFound whenever one of its files is absent.
C8_LoadCsvDataSignals ==
    (ret.fn = "load_csv_data" /\ \E f \in NeededFiles(ret.fn) : ~f.present)
        => SignalsFileNotFound(ret)

\* ------------------------------------------------------------------ C9
\* what an uncached run of a loader over the files as they are now returns
Fresh(fn) ==
    CASE fn = "_load_access_kpi_data" -> LoadAccessKpiBody(waterFile, sewerFile)
      [] fn = "_prepare_service_data" -> PrepareServiceBody(serviceFile)

\* C9: after any sequence of loads and file changes, what a memoised loader
\* returns is identical to what a fresh, uncached computation over the files'
\* current contents returns.
C9_CacheTransparent ==
    ret.fn \in {"_load_access_kpi_data", "_prepare_service_data"} => ret = Fresh(ret.fn)

\* What the code does keep of C9: a call made while the cache holds nothing
\* returns the fresh computation, and the cache holds only values a body returned.
C9_CachedValuesWereReturned ==
    /\ kpiCache.cached => kpiCache.val.ok /\ kpiCache.val.fn = "_load_access_kpi_data"
    /\ serviceCache.cached => serviceCache.val.ok /\ serviceCache.val.fn = "_prepare_service_data"

\* ------------------------------------------------------------------ SpecSlug
\* The texts of at most n characters over a set of characters.
RECURSIVE TextsUpTo(_, _)
TextsUpTo(alphabet, n) ==
    IF n = 0 THEN {<<>>}
    ELSE LET shorter == TextsUpTo(alphabet, n - 1)
         IN  shorter \cup {<<c>> \o s : c \in alphabet, s \in {x \in shorter : Len(x) = n - 1}}

SlugAlphabet == {"a", "B", "1", " ", ".", "-"}

T_KampalaNorth == <<"K", "a", "m", "p", "a", "l", "a", " ", "N", "o", "r", "t", "h">>

SlugArgs == {Str(s) : s \in TextsUpTo(SlugAlphabet, MaxLen)} \cup {None}

SlugInit ==
    /\ slugIn \in (SlugArgs \X SlugArgs) \cup {<<Str(T_Uganda), Str(T_KampalaNorth)>>}
    /\ slugOut = NotCalled
    /\ SnapIdle /\ FilesIdle /\ CacheIdle /\ SessionIdle /\ ret = NotCalled

CallZoneIdentifier ==
    /\ slugOut = NotCalled
    /\ slugOut' = Returned("_zone_identifier", _zone_identifier(slugIn[1], slugIn[2]))
    /\ UNCHANGED <<slugIn, snapVars, fileVars, cacheVars, ret, sessVars>>

SlugNext == CallZoneIdentifier

SpecSlug == SlugInit /\ [][SlugNext]_vars

\* ------------------------------------------------------------------ C10
\* The reference slug, computed from the tokens of the text: the maximal runs
\* of a-z0-9 of the lowercased text, joined by single hyphens.
RECURSIVE TakeRun(_)
TakeRun(s) ==
    IF s # <<>> /\ IsSlugChar(Head(s)) THEN <<Head(s)>> \o TakeRun(Tail(s)) ELSE <<>>

RECURSIVE SlugTokens(_)
SlugTokens(s) ==
    IF s = <<>> THEN <<>>
    ELSE IF IsSlugChar(Head(s))
         THEN LET run == TakeRun(s)
              IN  <<run>> \o SlugTokens(SubSeq(s, Len(run) + 1, Len(s)))
         ELSE SlugTokens(Tail(s))

RECURSIVE JoinHyphen(_)
JoinHyphen(tokens) ==
    IF tokens = <<>> THEN <<>>
    ELSE IF Len(tokens) = 1 THEN tokens[1]
    ELSE tokens[1] \o <<"-">> \o JoinHyphen(Tail(tokens))

AbsentOrEmpty(v) == v = None \/ v = Str(<<>>)

RefSlug(country, zone) ==
    LET c == IF AbsentOrEmpty(country) THEN T_na ELSE country.s
        z == IF AbsentOrEmpty(zone) THEN T_zone ELSE zone.s
        tokens == SlugTokens(LowerStr(c \o <<"-">> \o z))
    IN  IF tokens = <<>> THEN T_zone ELSE JoinHyphen(tokens)

OnlyPunctuation(v) == IsStr(v) /\ v.s # <<>> /\ \A i \in 1..Len(v.s) : v.s[i] \in {" ", ".", "-"}

T_uganda_kampala_north ==
    <<"u", "g", "a", "n", "d", "a", "-", "k", "a", "m", "p", "a", "l", "a", "-", "n", "o", "r", "t", "h">>

\* C10: _zone_identifier(country, zone) is the reference slug for every pair
\* of texts or absent values; punctuation-only country and zone give "zone",
\* and ("Uganda", "Kampala North") gives "uganda-kampala-north".
C10_SlugIsReference ==
    slugOut # NotCalled =>
        /\ slugOut.val = RefSlug(slugIn[1], slugIn[2])
        /\ (OnlyPunctuation(slugIn[1]) /\ OnlyPunctuation(slugIn[2])) => slugOut.val = T_zone
        /\ slugIn = <<Str(T_Uganda), Str(T_KampalaNorth)>> => slugOut.val = T_uganda_kampala_north

\* The slug of a pair whose texts hold a run of two characters outside a-z0-9
\* has been computed.
C10_Witness ==
    /\ slugOut # NotCalled
    /\ slugIn[1] = Str(<<"B", " ">>)
    /\ slugIn[2] = Str(<<".", "a">>)
    /\ slugOut.val = <<"b", "-", "a">>

\* ------------------------------------------------------------------ SpecColumns
\* Access files with gaps: any of the four columns may be absent from a file,
\* and a country or zone cell may be empty.
GapWaterRowSpecs ==
    {<<Str(T_Malawi), Str(T_Lilongwe), Num(2024), Num(45)>>,
     <<NaN, Str(T_Kampala), Num(2023), Num(50)>>,
     <<Str(T_Malawi), NaN, Num(2024), Str(T_n_a)>>}

GapSewerRowSpecs ==
    {<<Str(T_Malawi), Str(T_Lilongwe), Num(2024), Num(50)>>,
     <<Str(T_Uganda), NaN, Num(2023), NaN>>}

GapColSets(pct) == SUBSET {"country", "zone", "year", pct}

GapWaterFiles ==
    {FileTable(cols, "w_safely_managed_pct", spec) :
        cols \in GapColSets("w_safely_managed_pct"),
        spec \in SeqsUpTo(GapWaterRowSpecs, MaxWaterRows)}

GapSewerFiles ==
    {FileTable(cols, "s_safely_managed_pct", spec) :
        cols \in GapColSets("s_safely_managed_pct"),
        spec \in SeqsUpTo(GapSewerRowSpecs, MaxSewerRows)}

ColumnsInit ==
    /\ waterFile \in GapWaterFiles
    /\ sewerFile \in GapSewerFiles
    /\ serviceFile = Absent
    /\ ret = NotCalled
    /\ SlugIdle /\ SnapIdle /\ CacheIdle /\ SessionIdle

ColumnsNext == CallPrepareAccessData

SpecColumns == ColumnsInit /\ [][ColumnsNext]_vars

\* ------------------------------------------------------------------ C11
\* A country or zone of a record is missing in the data: the cell was empty
\* in the file (which astype(str) turns into the text "nan"; no file of the
\* model holds that text), or the join left it without a value.
MissingInData(v) == IsNa(v) \/ v = Str(T_nan)

MissingAsAbsent(v) == IF MissingInData(v) THEN None ELSE v

\* C11: in the zone records of _prepare_access_data, the id of a record whose
\* country is missing in the data has the country part "na", and the id of a
\* record whose zone is missing has the zone part "zone": the id is the slug
\* of the record's country and zone with the missing ones taken as absent.
C11_MissingPartsInId ==
    AccessReturned =>
        \A k \in 1..Len(ret.val.zones) :
            LET r == ret.val.zones[k]
            IN  r.id = RefSlug(MissingAsAbsent(r.country), MissingAsAbsent(r.name))

\* What the code does keep of C11: the id of every record whose country and
\* zone are both there is the slug of the two.
C11_WhenBothPresent ==
    AccessReturned =>
        \A k \in 1..Len(ret.val.zones) :
            LET r == ret.val.zones[k]
            IN  (~MissingInData(r.country) /\ ~MissingInData(r.name))
                    => r.id = RefSlug(r.country, r.name)

\* ------------------------------------------------------------------ SpecNormalise
T_45 == <<"4", "5">>
T_2023 == <<"2", "0", "2", "3">>

\* The rows of a raw table, each <<country, zone, year, w_safely_managed_pct,
\* s_safely_managed_pct, municipal_coverage>> as read_csv reads them: numbers,
\* empty cells, texts of digits in a column that also holds other text, texts
\* that are no number, and the infinities read_csv reads from "inf" and "-inf".
NormRowSpecs ==
    {<<Str(T_Malawi_padded), Str(T_Lilongwe), Num(2024), Num(45), Num(50), Num(60)>>,
     <<NaN, Str(T_Kampala), Str(T_n_a), Str(T_n_a), NaN, Str(T_45)>>,
     <<Str(T_Uganda), NaN, NaN, PosInf, Str(T_45), NaN>>,
     <<Str(T_Uganda), Str(T_Kampala), Str(T_2023), NaN, NegInf, Str(T_n_a)>>}

NormColOrder ==
    <<"country", "zone", "year", "w_safely_managed_pct", "s_safely_managed_pct", "municipal_coverage">>

NormColSets == {opt \cup more : opt \in SUBSET {NormColOrder[i] : i \in 1..6}, more \in SUBSET {"popn_total"}}

\* popn_total, a column that is no percentage, holds a text that is no number
NormTable(cols, spec) ==
    Table(cols,
          [i \in 1..Len(spec) |-> i - 1],
          [i \in 1..Len(spec) |->
              [c \in cols |->
                  IF c = "popn_total" THEN Str(T_n_a)
                  ELSE spec[i][CHOOSE k \in 1..6 : NormColOrder[k] = c]]])

NormTables == {NormTable(cols, spec) : cols \in NormColSets, spec \in SeqsUpTo(NormRowSpecs, MaxNormRows)}

\* the two ways the code calls _normalise_access_df: <<prefix, extra_pct_cols>>
NormCalls == {<<T_w_, {"municipal_coverage"}>>, <<T_s_, {}>>}

NormaliseInit ==
    /\ df \in NormTables
    /\ latest = NotCalled
    /\ ret = NotCalled
    /\ SlugIdle /\ FilesIdle /\ CacheIdle /\ SessionIdle

\* What a call returns, with the arguments it was made with.
NormaliseResult(t, prefix, extra) ==
    IF Int64CastFails(t) THEN Raised("_normalise_access_df", "TypeError")
    ELSE Returned("_normalise_access_df",
                  [prefix |-> prefix, extra |-> extra, frame |-> _normalise_access_df(t, prefix, extra)])

\* _normalise_access_df(df, prefix=..., extra_pct_cols=...) on a raw table
CallNormalise ==
    /\ ret = NotCalled
    /\ \E call \in NormCalls : ret' = NormaliseResult(df, call[1], call[2])
    /\ UNCHANGED <<slugVars, snapVars, fileVars, cacheVars, sessVars>>

\* the same call made on the table the first call returned
CallNormaliseAgain ==
    /\ ret.fn = "_normalise_access_df"
    /\ df # ret.val.frame
    /\ df' = ret.val.frame
    /\ ret' = NormaliseResult(ret.val.frame, ret.val.prefix, ret.val.extra)
    /\ UNCHANGED <<slugVars, latest, fileVars, cacheVars, sessVars>>

NormaliseNext == CallNormalise \/ CallNormaliseAgain

SpecNormalise == NormaliseInit /\ [][NormaliseNext]_vars

Normalised == ret.fn = "_normalise_access_df"

\* the percentage columns of a table for a call's arguments, by the claim's words
DeclaredPctCols(cols, prefix, extra) ==
    {c \in cols : StartsWith(Spell[c], prefix) /\ EndsWith(Spell[c], T__pct)} \cup (extra \cap cols)

\* ------------------------------------------------------------------ C12
\* C12: after _normalise_access_df(df, prefix), every value of each percentage
\* column is a finite number or missing; no text is left and no error raised.
C12_PctFiniteOrMissing ==
    Normalised =>
        /\ ret.ok
        /\ \A c \in DeclaredPctCols(ret.val.frame.cols, ret.val.prefix, ret.val.extra) :
              \A i \in Positions(ret.val.frame) :
                  IsFinite(ret.val.frame.rows[i][c]) \/ IsNa(ret.val.frame.rows[i][c])

\* What the code does keep of C12: no percentage value stays a text, and one
\* that is no number becomes missing.
C12_PctNeverText ==
    Normalised =>
        /\ ret.ok
        /\ \A c \in DeclaredPctCols(ret.val.frame.cols, ret.val.prefix, ret.val.extra) :
              \A i \in Positions(ret.val.frame) : ~IsStr(ret.val.frame.rows[i][c])

\* ------------------------------------------------------------------ C13
\* C13: after _normalise_access_df(df, prefix), no column name starts with the
\* prefix and ends with _pct: each such input column carries its name with the
\* prefix stripped.
C13_PrefixStripped ==
    Normalised =>
        /\ \A c \in ret.val.frame.cols :
              ~(StartsWith(Spell[c], ret.val.prefix) /\ EndsWith(Spell[c], T__pct))
        /\ \A c \in df.cols :
              (StartsWith(Spell[c], ret.val.prefix) /\ EndsWith(Spell[c], T__pct))
                  => StripAccessPrefix(c) \in ret.val.frame.cols

\* What the code does instead: the column names are left as they are.
C13_ColumnsUnchanged == Normalised => ret.val.frame.cols = df.cols

\* ------------------------------------------------------------------ C14
\* C14: normalising an already-normalised table is a no-op: the second call
\* returns a table with the same column names, value types and values as the
\* table the first call returned.
C14_NormaliseIdempotent ==
    [][(ret.fn = "_normalise_access_df" /\ df' = ret.val.frame) => ret' = ret]_vars

\* A second call has been made on a table the first call had changed: its
\* country holds the text made of an empty cell and its percentage the
\* number parsed from a text.
C14_Witness ==
    /\ Normalised
    /\ df = ret.val.frame
    /\ \E i \in Positions(df) :
          /\ "country" \in df.cols /\ df.rows[i]["country"] = Str(T_nan)
          /\ "municipal_coverage" \in df.cols /\ df.rows[i]["municipal_coverage"] = Num(45)

\* ------------------------------------------------------------------ plot_access_ladder_by_zone
\* _ladder_config(for_type): the ladder's columns, lowest rung first
LadderCols(for_type) ==
    IF StartsWith(LowerStr(for_type), T_water)
    THEN <<"surface_water_pct", "unimproved_pct", "limited_pct", "basic_pct", "safely_managed_pct">>
    ELSE <<"open_def_pct", "unimproved_pct", "limited_pct", "basic_pct", "safely_managed_pct">>

\* c.replace("_pct", "").replace("_", " ").title()
LevelLabel(c) ==
    CASE c = "surface_water_pct" -> "Surface Water"
      [] c = "open_def_pct" -> "Open Def"
      [] c = "unimproved_pct" -> "Unimproved"
      [] c = "limited_pct" -> "Limited"
      [] c = "basic_pct" -> "Basic"
      [] c = "safely_managed_pct" -> "Safely Managed"

\* the rows of a table picked by a sequence of positions
TakeRows(t, picked) ==
    [t EXCEPT !.index = [i \in 1..Len(picked) |-> t.index[picked[i]]],
              !.rows = [i \in 1..Len(picked) |-> t.rows[picked[i]]]]

\* df[df["type"].str.lower() == type_value.lower()]
FilterType(t, type_value) ==
    TakeRows(t, SelectSeq([i \in Positions(t) |-> i],
                          LAMBDA i : IsStr(t.rows[i]["type"])
                                     /\ LowerStr(t.rows[i]["type"].s) = LowerStr(type_value.s)))

\* the rows of the latest year, when the table has a year that is not missing
LatestYearRows(t) ==
    LET dated == {i \in Positions(t) : IsNum(t.rows[i]["year"])}
        latest_year == CHOOSE y \in {t.rows[i]["year"].n : i \in dated} :
                          \A i \in dated : t.rows[i]["year"].n <= y
    IN  IF "year" \in t.cols /\ dated # {}
        THEN TakeRows(t, SelectSeq([i \in Positions(t) |-> i],
                                   LAMBDA i : i \in dated /\ t.rows[i]["year"].n = latest_year))
        ELSE t

\* A plausible repair: the missing cells left as they are.
FillNaZeroNot(t, cols) == t

\* dft[avail] = dft[avail].fillna(0)
FillNaZero(t, cols) ==
    [t EXCEPT !.rows = [i \in Positions(t) |->
        [c \in t.cols |-> IF c \in cols /\ IsNa(t.rows[i][c]) THEN Num(0) ELSE t.rows[i][c]]]]

\* dft.melt(id_vars=id_vars, value_vars=avail, var_name="level", value_name="pct"),
\* the level then written as its label
Melt(t, id_vars, avail) ==
    LET n == Len(t.rows)
        cols == id_vars \cup {"level", "pct"}
    IN  Table(cols,
              [j \in 1..(n * Len(avail)) |-> j - 1],
              [j \in 1..(n * Len(avail)) |->
                  LET c == avail[((j - 1) \div n) + 1]
                      row == t.rows[((j - 1) % n) + 1]
                  IN  [k \in cols |->
                          CASE k = "level" -> LevelLabel(c)
                            [] k = "pct" -> row[c]
                            [] OTHER -> row[k]]])

NoChart(type_value) == Returned("plot_access_ladder_by_zone", [type_value |-> type_value, drawn |-> FALSE, data |-> Absent])

\* plot_access_ladder_by_zone(df, type_value): the table handed to px.bar, or
\* no chart
plot_access_ladder_by_zone(t, type_value) ==
    LET dft0 == IF "type" \in t.cols /\ Truthy(type_value) THEN FilterType(t, type_value) ELSE t
        dft1 == LatestYearRows(dft0)
        cols == LadderCols(IF Truthy(type_value) THEN type_value.s ELSE <<>>)
        avail == SelectSeq(cols, LAMBDA c : c \in dft1.cols)
        dft2 == FillNaZero(dft1, {avail[k] : k \in 1..Len(avail)})
        id_vars == IF "zone" \in dft2.cols THEN {"zone"}
                   ELSE IF "country" \in dft2.cols THEN {"country"} ELSE {}
    IN  IF dft0.rows = <<>> THEN NoChart(type_value)
        ELSE IF avail = <<>> THEN NoChart(type_value)
        ELSE IF id_vars = {} THEN NoChart(type_value)
        ELSE Returned("plot_access_ladder_by_zone",
                      [type_value |-> type_value, drawn |-> TRUE, data |-> Melt(dft2, id_vars, avail)])

\* ------------------------------------------------------------------ SpecLadder
T_Water_cap == <<"W", "a", "t", "e", "r">>

\* The rows of the combined access table, each <<zone, year, type,
\* safely_managed_pct, basic_pct>>.
LadderRowSpecs ==
    {<<Str(T_Kampala), Num(2024), Str(T_water), Num(45), Num(30)>>,
     <<Str(T_Kampala), Num(2024), Str(T_sewer), NaN, Num(20)>>,
     <<Str(T_Lilongwe), Num(2024), Str(T_Water_cap), NaN, NaN>>,
     <<Str(T_Lilongwe), Num(2023), Str(T_water), Num(0), Num(100)>>,
     <<Str(T_Kampala), NaN, Str(T_water), Num(50), NaN>>}

LadderColOrder == <<"zone", "year", "type", "safely_managed_pct", "basic_pct">>

LadderTable(cols, spec) ==
    Table(cols,
          [i \in 1..Len(spec) |-> i - 1],
          [i \in 1..Len(spec) |->
              [c \in cols |-> spec[i][CHOOSE k \in 1..5 : LadderColOrder[k] = c]]])

LadderTables ==
    {LadderTable(cols, spec) :
        cols \in SUBSET {LadderColOrder[i] : i \in 1..5},
        spec \in SeqsUpTo(LadderRowSpecs, MaxLadderRows)}

LadderTypes == {None, Str(T_water), Str(T_sewer)}

LadderInit ==
    /\ df \in LadderTables
    /\ latest = NotCalled
    /\ ret = NotCalled
    /\ SlugIdle /\ FilesIdle /\ CacheIdle /\ SessionIdle

CallPlotAccessLadder ==
    /\ ret = NotCalled
    /\ \E type_value \in LadderTypes : ret' = plot_access_ladder_by_zone(df, type_value)
    /\ UNCHANGED <<slugVars, snapVars, fileVars, cacheVars, sessVars>>

LadderNext == CallPlotAccessLadder

SpecLadder == LadderInit /\ [][LadderNext]_vars

\* ------------------------------------------------------------------ C15
LadderDrawn == ret.fn = "plot_access_ladder_by_zone" /\ ret.val.drawn

\* the cells of the input a row of the chart data can have come from: those
\* of its level's column in the rows of its zone
ChartSourceCells(t, drow) ==
    {t.rows[i][c] : i \in {x \in Positions(t) : t.rows[x]["zone"] = drow["zone"]},
                    c \in {x \in t.cols : x \in DOMAIN Spell /\ EndsWith(Spell[x], T__pct)
                                          /\ LevelLabel(x) = drow["level"]}}

\* C15: a percentage that is missing in the input is never turned into 0: in
\* the access-ladder chart data, a row holds 0 only where the input holds 0
\* for that zone and level.
C15_MissingNeverZero ==
    (LadderDrawn /\ "zone" \in df.cols) =>
        \A j \in Positions(ret.val.data) :
            ret.val.data.rows[j]["pct"] = Num(0)
                => Num(0) \in ChartSourceCells(df, ret.val.data.rows[j])

\* What the code does instead in the chart data: no row is missing, every
\* missing percentage having become 0.
C15_ChartHasNoMissing ==
    LadderDrawn => \A j \in Positions(ret.val.data) : ~IsNa(ret.val.data.rows[j]["pct"])

\* ------------------------------------------------------------------ scene_quality
T_All == <<"A", "l", "l">>

\* df[df[col] == value]
RowsWhere(t, col, value) ==
    TakeRows(t, SelectSeq([i \in Positions(t) |-> i], LAMBDA i : t.rows[i][col] = value))

SeqToSet(q) == {q[i] : i \in 1..Len(q)}

\* the options of the three select boxes, each after the one before it
CountryOptions(data) == {Str(T_All)} \cup SeqToSet(data.countries)

CityOptions(data, selected_country) ==
    {Str(T_All)} \cup
        (IF selected_country # Str(T_All)
         THEN SeqToSet(SortedUnique(RowsWhere(data.full_data, "country", selected_country), "city"))
         ELSE SeqToSet(data.cities))

ZoneOptions(data, selected_city) ==
    {Str(T_All)} \cup
        (IF selected_city # Str(T_All)
         THEN SeqToSet(SortedUnique(RowsWhere(data.full_data, "city", selected_city), "zone"))
         ELSE SeqToSet(data.zones))

FilterBy(t, col, selected) == IF selected # Str(T_All) THEN RowsWhere(t, col, selected) ELSE t

\* int(x) of a finite number: truncation toward zero
IntOf(v) == IF v.n >= 0 THEN v.n \div v.d ELSE -((-v.n) \div v.d)

Clamp100(n) == IF n < 0 THEN 0 ELSE IF n > 100 THEN 100 ELSE n

\* A plausible repair: a value that is no finite number drawn as an empty gauge.
ConicAngleGuarded(value) ==
    IF value.t = "num" THEN [ok |-> TRUE, err |-> "", angle |-> Rat(Clamp100(IntOf(value)) * 18, 5)]
    ELSE [ok |-> TRUE, err |-> "", angle |-> Num(0)]

\* _conic_css(value, color): the angle of the gauge, max(0, min(100,
\* int(value))) * 3.6; int() of NaN raises ValueError and of an infinity
\* OverflowError.
ConicAngle(value) ==
    CASE value.t = "num" -> [ok |-> TRUE, err |-> "", angle |-> Rat(Clamp100(IntOf(value)) * 18, 5)]
      [] value.t \in {"inf", "ninf"} -> [ok |-> FALSE, err |-> "OverflowError", angle |-> NaN]
      [] OTHER -> [ok |-> FALSE, err |-> "ValueError", angle |-> NaN]

KpiCols == <<"nrw_rate", "water_quality_rate", "sewer_coverage_rate", "complaint_resolution_rate">>

\* scene_quality() for the three selections made, given what
\* _prepare_service_data() returned: the filtered rows, the period
\* aggregation, the latest rows, the four KPIs and their gauges, or the
\* exception that ends the scene.
scene_quality(service_data, selected_country, selected_city, selected_zone) ==
    LET filtered_df == FilterBy(FilterBy(FilterBy(service_data.val.full_data,
                                                  "country", selected_country),
                                         "city", selected_city),
                                "zone", selected_zone)
        time_series == TimeSeries(filtered_df)
        latest_data == LatestByZone(SortByDate(filtered_df))
        kpis == [k \in 1..4 |-> AggMean(ColumnCells(latest_data, [i \in Positions(latest_data) |-> i], KpiCols[k]))]
        gauges == [k \in 1..4 |-> ConicAngle(kpis[k])]
        failed == {k \in 1..4 : ~gauges[k].ok}
    IN  IF ~service_data.ok THEN Raised("scene_quality", service_data.err)
        ELSE IF failed # {}
        THEN Raised("scene_quality", gauges[CHOOSE k \in failed : \A j \in failed : k <= j].err)
        ELSE Returned("scene_quality",
                      [selected |-> <<selected_country, selected_city, selected_zone>>,
                       filtered_df |-> filtered_df,
                       time_series |-> time_series,
                       latest_data |-> latest_data,
                       kpis |-> kpis,
                       gauges |-> [k \in 1..4 |-> gauges[k].angle]])

\* ------------------------------------------------------------------ SpecScene
\* Service files of two countries: Kampala's zones are Uganda's, Lilongwe's
\* are Malawi's.
PlacedTable(spec) ==
    LET t == ServiceTable(spec)
    IN  [t EXCEPT !.rows = [i \in Positions(t) |->
            [t.rows[i] EXCEPT !["country"] = IF t.rows[i]["zone"] = Str(T_Lilongwe)
                                             THEN Str(T_Malawi) ELSE Str(T_Uganda),
                              !["city"] = t.rows[i]["zone"]]]]

SceneCounts == {CountsOrdinary, CountsFull, CountsIdle}

SceneFiles ==
    {Absent} \cup
    {PlacedTable(spec) : spec \in SeqsUpTo(ServiceMonths \X ServiceZones \X SceneCounts, MaxServiceRows)}

SceneInit ==
    /\ serviceFile \in SceneFiles
    /\ waterFile = Absent /\ sewerFile = Absent
    /\ ret = NotCalled
    /\ SlugIdle /\ SnapIdle /\ CacheIdle /\ SessionIdle

\* scene_quality(): the service data through its cache, then one choice in
\* each select box among the options it offers
CallSceneQuality ==
    LET service_data == CachedCall(serviceCache, PrepareServiceBody(serviceFile))
    IN  /\ ret = NotCalled
        /\ serviceCache' = CacheAfter(serviceCache, PrepareServiceBody(serviceFile))
        /\ IF ~service_data.ok
           THEN ret' = Raised("scene_quality", service_data.err)
           ELSE \E selected_country \in CountryOptions(service_data.val) :
                \E selected_city \in CityOptions(service_data.val, selected_country) :
                \E selected_zone \in ZoneOptions(service_data.val, selected_city) :
                    ret' = scene_quality(service_data, selected_country, selected_city, selected_zone)
        /\ UNCHANGED <<slugVars, snapVars, fileVars, kpiCache, sessVars>>

SceneNext == CallSceneQuality

SpecScene == SceneInit /\ [][SceneNext]_vars

\* ------------------------------------------------------------------ C16
\* C16: for every combination of country, city and zone the Service Quality
\* scene offers, also one that matches no row, the aggregation and the KPI
\* computation complete without raising.
C16_EverySelectionCompletes ==
    (ret.fn = "scene_quality" /\ serviceFile.present) => ret.ok

\* What the code does keep of C16: a selection whose four KPIs are finite
\* numbers completes, and its rows are rows of the selected places.
C16_CompletesWithRows ==
    (ret.fn = "scene_quality" /\ ret.ok) =>
        /\ ret.val.filtered_df.rows # <<>>
        /\ \A k \in 1..4 : IsFinite(ret.val.kpis[k])

\* ------------------------------------------------------------------ C17
PrepareAccessCalled == ret.fn = "_prepare_access_data"

WaterExpected == {"country", "zone", "year", "w_safely_managed_pct"}
SewerExpected == {"country", "zone", "year", "s_safely_managed_pct"}

LacksExpectedColumn ==
    /\ waterFile.present /\ sewerFile.present
    /\ (~(WaterExpected \subseteq waterFile.cols) \/ ~(SewerExpected \subseteq sewerFile.cols))

\* C17: when a present input file lacks an expected column,
\* _prepare_access_data does not fail: it returns a result, and the fields of
\* a record that come from a lacking percentage column are null.
C17_MissingColumnNotFatal ==
    (PrepareAccessCalled /\ LacksExpectedColumn) =>
        /\ ret.ok
        /\ \A k \in 1..Len(ret.val.zones) :
              /\ "w_safely_managed_pct" \notin waterFile.cols => ret.val.zones[k].water_safely_pct = None
              /\ "s_safely_managed_pct" \notin sewerFile.cols => ret.val.zones[k].sewer_safely_pct = None

\* What the code does keep of C17: a file may lack country or year; the call
\* returns as long as both files have the zone and the percentage column.
C17_CountryAndYearOptional ==
    (PrepareAccessCalled
        /\ {"zone", "w_safely_managed_pct"} \subseteq waterFile.cols
        /\ {"zone", "s_safely_managed_pct"} \subseteq sewerFile.cols) => ret.ok

\* What the code does when a percentage column lacks: it raises KeyError.
C17_PctColumnRequired ==
    (PrepareAccessCalled
        /\ ("w_safely_managed_pct" \notin waterFile.cols \/ "s_safely_managed_pct" \notin sewerFile.cols))
            => (~ret.ok /\ ret.err = "KeyError")

\* ------------------------------------------------------------------ C18
\* C18 speaks of a non-key column that both inputs of the merge carry under
\* one name.  The two snapshots never do: every column they share is a merge
\* key, the rename maps and keep-sets of the two calls having no other name
\* in common.
C18_NoSharedNonKeyColumn ==
    AccessReturned =>
        (ret.val.water_latest.cols \cap ret.val.sewer_latest.cols)
            \subseteq MergeKeys(ret.val.water_latest, ret.val.sewer_latest)

\* ------------------------------------------------------------------ C19
SnapshotReturned == latest.fn = "_latest_snapshot" /\ latest.ok

\* the last row, in input order, of a key
LastRowOfKey(t, key) ==
    LET rows == {i \in Positions(t) : KeyTuple(t.rows[i], SnapshotKeys(t)) = key}
    IN  CHOOSE i \in rows : \A j \in rows : j <= i

\* C19: when the table has no year column, _latest_snapshot returns, for each
\* key, the last record of that key in input order, and no other row.
C19_LastRecordWins ==
    (latest # NotCalled /\ "year" \notin df.cols) =>
        /\ latest.ok
        /\ Len(latest.val.rows) = Cardinality(InputKeys(df))
        /\ \A key \in InputKeys(df) :
              LET got == OutputRowsOfKey(latest.val, SnapshotKeys(df), key)
              IN  /\ Cardinality(got) = 1
                  /\ \A i \in got :
                        /\ latest.val.index[i] = df.index[LastRowOfKey(df, key)]
                        /\ latest.val.rows[i]["water_safely_pct"]
                              = df.rows[LastRowOfKey(df, key)]["w_safely_managed_pct"]

\* A table without year whose first and last row share a key has been
\* reduced to the last of them.
C19_Witness ==
    /\ SnapshotReturned
    /\ "year" \notin df.cols
    /\ Len(df.rows) = 3
    /\ KeyTuple(df.rows[1], SnapshotKeys(df)) = KeyTuple(df.rows[3], SnapshotKeys(df))
    /\ KeyTuple(df.rows[2], SnapshotKeys(df)) # KeyTuple(df.rows[3], SnapshotKeys(df))
    /\ latest.val.index = <<1, 2>>

\* ------------------------------------------------------------------ C20
\* the name each column of the input tables has in the output of the water
\* call, popn_total having none
SnapshotOutputName ==
    ("country" :> "country") @@ ("zone" :> "zone") @@ ("year" :> "water_year") @@
    ("w_safely_managed_pct" :> "water_safely_pct")

\* C20: the columns of _latest_snapshot's output are exactly the input
\* columns of the keep-set, each under its new name and with its cells; the
\* other input columns are dropped and no column is invented.
C20_OutputColumns ==
    SnapshotReturned =>
        /\ latest.val.cols = {SnapshotOutputName[c] : c \in df.cols \cap DOMAIN SnapshotOutputName}
        /\ \A i \in Positions(latest.val) :
              \E j \in Positions(df) :
                  /\ df.index[j] = latest.val.index[i]
                  /\ \A c \in df.cols \cap DOMAIN SnapshotOutputName :
                        latest.val.rows[i][SnapshotOutputName[c]] = df.rows[j][c]

\* A table with all its columns has been reduced: popn_total is dropped and
\* year and the percentage are renamed.
C20_Witness ==
    /\ SnapshotReturned
    /\ df.cols = {"country", "zone", "year", "w_safely_managed_pct", "popn_total"}
    /\ Len(df.rows) = 2
    /\ latest.val.cols = {"country", "zone", "water_year", "water_safely_pct"}

\* ------------------------------------------------------------------ C21
\* the (year, month) periods of a table's rows
PeriodsIn(t) == {<<t.rows[i]["year"].n, t.rows[i]["month"].n>> : i \in Positions(t)}

\* the first day of a period as the model writes a date
PeriodDate(p) == Num(p[1] * 100 + p[2])

PeriodBefore(p, q) == p[1] < q[1] \/ (p[1] = q[1] /\ p[2] < q[2])

\* the aggregation a call has made and the rows it was made over
AggregationInput ==
    IF ret.fn = "scene_quality" THEN ret.val.filtered_df ELSE ret.val.full_data

AggregationDone == ret.fn \in {"_prepare_service_data", "scene_quality"} /\ ret.ok

\* C21: the period aggregation has exactly one row per distinct (year, month)
\* period of its input, in ascending period order.
C21_OneRowPerPeriod ==
    AggregationDone =>
        LET ts == ret.val.time_series
            periods == PeriodsIn(AggregationInput)
        IN  /\ Len(ts.rows) = Cardinality(periods)
            /\ \A p \in periods : \E k \in Positions(ts) : ts.rows[k]["date"] = PeriodDate(p)
            /\ \A k \in Positions(ts) : \E p \in periods : ts.rows[k]["date"] = PeriodDate(p)
            /\ \A p \in periods, q \in periods :
                  PeriodBefore(p, q) =>
                      \E k \in Positions(ts), l \in Positions(ts) :
                          k < l /\ ts.rows[k]["date"] = PeriodDate(p) /\ ts.rows[l]["date"] = PeriodDate(q)

\* A file whose first row is of February and whose second of January has
\* been aggregated into January, then February.
C21_Witness ==
    /\ ServiceReturned
    /\ Len(serviceFile.rows) = 2
    /\ serviceFile.rows[1]["month"] = Num(2)
    /\ serviceFile.rows[2]["month"] = Num(1)
    /\ Len(ret.val.time_series.rows) = 2
    /\ ret.val.time_series.rows[1]["date"] = Num(202401)

\* ------------------------------------------------------------------ C22
\* the cells of a column in the rows of one period that are not missing
PeriodValues(t, p, col) ==
    {<<i, t.rows[i][col]>> :
        i \in {x \in Positions(t) : <<t.rows[x]["year"].n, t.rows[x]["month"].n>> = p
                                    /\ t.rows[x][col].t # "nan"}}

\* the sum of a set of <<row, cell>> pairs, the empty sum being 0
RECURSIVE SumOfValues(_)
SumOfValues(V) ==
    IF V = {} THEN Num(0)
    ELSE LET v == CHOOSE x \in V : TRUE
         IN  FAdd(v[2], SumOfValues(V \ {v}))

RowOfPeriod(ts, p) == ts.rows[CHOOSE k \in Positions(ts) : ts.rows[k]["date"] = PeriodDate(p)]

\* C22: for each period, a mean metric is the sum of the period's row values
\* that are not missing divided by their number, and a sum metric is their sum.
C22_MeanAndSumSkipMissing ==
    AggregationDone =>
        \A p \in PeriodsIn(AggregationInput) :
            /\ \A col \in SumCols :
                  RowOfPeriod(ret.val.time_series, p)[col]
                      = SumOfValues(PeriodValues(AggregationInput, p, col))
            /\ \A col \in MeanCols :
                  LET V == PeriodValues(AggregationInput, p, col)
                  IN  IF V = {} THEN RowOfPeriod(ret.val.time_series, p)[col].t = "nan"
                      ELSE RowOfPeriod(ret.val.time_series, p)[col]
                              = FDivInt(SumOfValues(V), Cardinality(V))

\* A period of two rows, one with a rate of 75 and one whose rate is missing,
\* has the mean 75, and the sum of a column missing in one row is the other's.
C22_Witness ==
    /\ ServiceReturned
    /\ Len(serviceFile.rows) = 2
    /\ serviceFile.rows[1]["month"] = serviceFile.rows[2]["month"]
    /\ ret.val.full_data.rows[1]["complaint_resolution_rate"] = Num(75)
    /\ ret.val.full_data.rows[2]["complaint_resolution_rate"] = NaN
    /\ ret.val.full_data.rows[2]["metered"] = NaN
    /\ ret.val.time_series.rows[1]["complaint_resolution_rate"] = Num(75)
    /\ ret.val.time_series.rows[1]["metered"] = Num(10)

\* ------------------------------------------------------------------ C25
\* the rows of a key that hold the key's most recent date
LatestRowsOfKey(t, key) ==
    LET rows == {i \in Positions(t) : ServiceKey(t.rows[i]) = key}
    IN  {i \in rows : \A j \in rows : t.rows[j]["date"].n <= t.rows[i]["date"].n}

\* the latest rows a call has computed
LatestRows == IF ret.fn = "scene_quality" THEN ret.val.latest_data ELSE ret.val.latest_by_zone

\* C25: for every (country, city, zone) key, the latest row is one input
\* record of the key's most recent date, every column of it taken from that
\* record, a missing value included.
C25_LatestIsOneRecord ==
    AggregationDone =>
        LET t == AggregationInput
            keys == {ServiceKey(t.rows[i]) : i \in Positions(t)}
        IN  /\ Len(LatestRows.rows) = Cardinality(keys)
            /\ \A key \in keys :
                  \E k \in Positions(LatestRows) :
                      \E i \in LatestRowsOfKey(t, key) :
                          \A col \in t.cols : LatestRows.rows[k][col] = t.rows[i][col]

\* What the code does keep of C25: one row per key, holding in every column
\* the key's most recent value that is not missing.
C25_LastValidPerColumn ==
    AggregationDone =>
        LET t == AggregationInput
            keys == {ServiceKey(t.rows[i]) : i \in Positions(t)}
        IN  /\ Len(LatestRows.rows) = Cardinality(keys)
            /\ \A key \in keys :
                  \E k \in Positions(LatestRows) :
                      /\ ServiceKey(LatestRows.rows[k]) = key
                      /\ \A col \in t.cols :
                            \/ \E i \in Positions(t) :
                                  /\ ServiceKey(t.rows[i]) = key
                                  /\ LatestRows.rows[k][col] = t.rows[i][col]
                                  /\ \A j \in Positions(t) :
                                        (ServiceKey(t.rows[j]) = key /\ t.rows[j]["date"].n > t.rows[i]["date"].n)
                                            => t.rows[j][col] = NaN
                            \/ /\ LatestRows.rows[k][col] = NaN
                               /\ \A i \in Positions(t) : ServiceKey(t.rows[i]) = key => t.rows[i][col] = NaN

\* ------------------------------------------------------------------ _ensure_year_int, _trend_series
\* A plausible repair: the conversion made on a copy.
EnsureYearIntOnCopy(t) == [caller |-> t, result |-> NumericColumn(t, "year")]

\* _ensure_year_int(df): the year column is assigned into the frame that was
\* passed, which is also the frame returned
_ensure_year_int(t) == [caller |-> NumericColumn(t, "year"), result |-> NumericColumn(t, "year")]

\* _trend_series(df): a copy of the rows of 2020 to 2024; comparing a text
\* with a number raises TypeError
_trend_series(t) ==
    IF "year" \notin t.cols THEN Returned("_trend_series", EmptyFrame)
    ELSE IF \E i \in Positions(t) : IsStr(t.rows[i]["year"]) THEN Raised("_trend_series", "TypeError")
    ELSE Returned("_trend_series",
                  TakeRows(t, SelectSeq([i \in Positions(t) |-> i],
                                        LAMBDA i : /\ IsNum(t.rows[i]["year"])
                                                   /\ t.rows[i]["year"].n >= 2020 * t.rows[i]["year"].d
                                                   /\ t.rows[i]["year"].n <= 2024 * t.rows[i]["year"].d)))

\* ------------------------------------------------------------------ SpecTransforms
\* df is the caller's table; each transform is called on it and the caller
\* goes on with the table as the call left it.
TransformsInit ==
    /\ df \in NormTables
    /\ latest = NotCalled
    /\ ret = NotCalled
    /\ SlugIdle /\ FilesIdle /\ CacheIdle /\ SessionIdle

CallEnsureYearInt ==
    /\ df' = IF Int64CastFails(df) THEN df ELSE _ensure_year_int(df).caller
    /\ ret' = IF Int64CastFails(df) THEN Raised("_ensure_year_int", "TypeError")
              ELSE Returned("_ensure_year_int", _ensure_year_int(df).result)
    /\ UNCHANGED <<slugVars, latest, fileVars, cacheVars, sessVars>>

CallTrendSeries ==
    /\ ret' = _trend_series(df)
    /\ UNCHANGED <<slugVars, snapVars, fileVars, cacheVars, sessVars>>

TransformsNext ==
    \/ CallNormalise
    \/ CallLatestSnapshot
    \/ CallEnsureYearInt
    \/ CallTrendSeries

SpecTransforms == TransformsInit /\ [][TransformsNext]_vars

\* ------------------------------------------------------------------ C23
\* C23: no transform changes the table it is given: after a call returns, the
\* caller's table has the columns and values it had before.
C23_InputUnchanged == [][df' = df]_vars

\* What the code does keep of C23: _normalise_access_df, _latest_snapshot and
\* _trend_series, which work on copies, leave the caller's table as it was.
C23_CopiesLeaveInput ==
    [][(ret'.fn # "_ensure_year_int" \/ ret' = ret) => df' = df]_vars

\* ------------------------------------------------------------------ SpecYear
\* the year cells of a raw table: a whole number, an empty cell, a text that
\* is no number, a text of digits, and a number that is no whole year
YearCells == {Num(2024), NaN, Str(T_n_a), Str(T_2023), Rat(4047, 2)}

YearTable(cols, years) ==
    Table(cols,
          [i \in 1..Len(years) |-> i - 1],
          [i \in 1..Len(years) |->
              [c \in cols |->
                  CASE c = "year" -> years[i]
                    [] c = "zone" -> Str(T_Kampala)
                    [] c = "w_safely_managed_pct" -> Num(40 + i)]])

YearTables ==
    {YearTable({"year"} \cup opt, years) :
        opt \in SUBSET {"zone", "w_safely_managed_pct"},
        years \in SeqsUpTo(YearCells, MaxNormRows)}

YearInit ==
    /\ df \in YearTables
    /\ latest = NotCalled
    /\ ret = NotCalled
    /\ SlugIdle /\ FilesIdle /\ CacheIdle /\ SessionIdle

YearNext == CallNormalise \/ CallEnsureYearInt

SpecYear == YearInit /\ [][YearNext]_vars

\* ------------------------------------------------------------------ C24
YearUnparseable(v) == IsNa(v) \/ (IsStr(v) /\ ~IsDigits(v.s))

IsWholeOrMissing(v) == IsNa(v) \/ (IsNum(v) /\ v.d = 1)

\* C24: after normalisation the year of every record is a whole number or
\* missing, an unparseable or empty year having become missing, and no error
\* is raised.
C24_YearWholeOrMissing ==
    ret.fn = "_normalise_access_df" =>
        /\ ret.ok
        /\ \A i \in Positions(ret.val.frame) :
              /\ IsWholeOrMissing(ret.val.frame.rows[i]["year"])
              /\ YearUnparseable(df.rows[i]["year"]) => ret.val.frame.rows[i]["year"] = NaN

\* What the code does keep of C24: when the call returns, every year is a
\* whole number or missing, and an unparseable one is missing.
C24_WhenReturned ==
    (ret.fn = "_normalise_access_df" /\ ret.ok) =>
        \A i \in Positions(ret.val.frame) :
            /\ IsWholeOrMissing(ret.val.frame.rows[i]["year"])
            /\ YearUnparseable(df.rows[i]["year"]) => ret.val.frame.rows[i]["year"] = NaN

\* ------------------------------------------------------------------ C26
\* the rows of the input the chart is made of: those of the type asked for
TypeFiltered ==
    IF "type" \in df.cols /\ Truthy(ret.val.type_value) THEN FilterType(df, ret.val.type_value) ELSE df

\* the zones that have a dated record
DatedZones(t) == {t.rows[i]["zone"] : i \in {x \in Positions(t) : IsNum(t.rows[x]["year"])}}

ChartedZones == {ret.val.data.rows[j]["zone"] : j \in Positions(ret.val.data)}

\* the rows of a zone's own most recent year
ZoneLatestRows(t, z) ==
    LET rows == {i \in Positions(t) : t.rows[i]["zone"] = z /\ IsNum(t.rows[i]["year"])}
    IN  {i \in rows : \A j \in rows : t.rows[j]["year"].n <= t.rows[i]["year"].n}

\* C26: every zone of the type-filtered input that has a dated record is
\* charted, from the record of that zone's own most recent year.
C26_LatestYearPerZone ==
    (LadderDrawn /\ {"zone", "year"} \subseteq df.cols) =>
        \A z \in DatedZones(TypeFiltered) :
            /\ z \in ChartedZones
            /\ \A j \in Positions(ret.val.data) :
                  ret.val.data.rows[j]["zone"] = z =>
                      \E i \in ZoneLatestRows(TypeFiltered, z) :
                          \E c \in TypeFiltered.cols \cap {"safely_managed_pct", "basic_pct"} :
                              /\ LevelLabel(c) = ret.val.data.rows[j]["level"]
                              /\ (ret.val.data.rows[j]["pct"] = TypeFiltered.rows[i][c]
                                    \/ (IsNa(TypeFiltered.rows[i][c]) /\ ret.val.data.rows[j]["pct"] = Num(0)))

\* What the code does instead: the chart holds the zones that have a record
\* of the one most recent year of the whole table, and no other zone.
C26_OneLatestYear ==
    (LadderDrawn /\ {"zone", "year"} \subseteq df.cols /\ DatedZones(TypeFiltered) # {}) =>
        ChartedZones =
            {TypeFiltered.rows[i]["zone"] :
                i \in {x \in Positions(TypeFiltered) :
                        /\ IsNum(TypeFiltered.rows[x]["year"])
                        /\ \A y \in Positions(TypeFiltered) :
                              IsNum(TypeFiltered.rows[y]["year"])
                                  => TypeFiltered.rows[y]["year"].n <= TypeFiltered.rows[x]["year"].n}}

\* ------------------------------------------------------------------ column headers of the two loaders
\* str.replace(pat, "", regex=False): every occurrence of pat removed, left
\* to right
RECURSIVE ReplaceAll(_, _)
ReplaceAll(text, pat) ==
    IF text = <<>> THEN <<>>
    ELSE IF StartsWith(text, pat) THEN ReplaceAll(SubSeq(text, Len(pat) + 1, Len(text)), pat)
    ELSE <<Head(text)>> \o ReplaceAll(Tail(text), pat)

\* visualize.load_data on one header of the water or the sewer file: the
\* file's own prefix removed wherever it occurs, then the pattern on the
\* combined columns
LoadDataColumn(header, source) ==
    StripPrefixText(ReplaceAll(header, IF source = "water" THEN T_w_ ELSE T_s_))

\* _load_access_kpi_data on one header: the pattern on the frame, then again
\* on the combined columns
KpiColumn(header) == StripPrefixText(StripPrefixText(header))

\* ------------------------------------------------------------------ SpecHeaders
HeaderChars == {"w", "s", "_", "a"}

Headers == UNION {[1..k -> HeaderChars] : k \in 1..MaxHeaderLen}

HeadersInit ==
    /\ ret = NotCalled
    /\ SlugIdle /\ SnapIdle /\ FilesIdle /\ CacheIdle /\ SessionIdle

\* the two loaders run on a file, water or sewer, with one header
CallLoadersOnHeader ==
    /\ ret = NotCalled
    /\ \E header \in Headers, source \in {"water", "sewer"} :
          ret' = Returned("columns",
                          [header |-> header, source |-> source,
                           load_data |-> LoadDataColumn(header, source),
                           kpi |-> KpiColumn(header)])
    /\ UNCHANGED <<slugVars, snapVars, fileVars, cacheVars, sessVars>>

HeadersNext == CallLoadersOnHeader

SpecHeaders == HeadersInit /\ [][HeadersNext]_vars

\* ------------------------------------------------------------------ C27
HasPrefix(text) == StartsWith(text, T_w_) \/ StartsWith(text, T_s_)

\* name is header without its leading prefix, or without its two leading
\* prefixes, and otherwise as it was
OnlyLeadingRemoved(header, name) ==
    IF ~HasPrefix(header) THEN name = header
    ELSE \/ name = SubSeq(header, 3, Len(header))
         \/ /\ HasPrefix(SubSeq(header, 3, Len(header)))
            /\ name = SubSeq(header, 5, Len(header))

\* C27: the two loaders give a header the same column name, which is the
\* header without its leading w_ or s_; a w_ or s_ inside the name stays.
C27_SameColumnNames ==
    ret.fn = "columns" =>
        /\ ret.val.load_data = ret.val.kpi
        /\ OnlyLeadingRemoved(ret.val.header, ret.val.kpi)
        /\ OnlyLeadingRemoved(ret.val.header, ret.val.load_data)

\* What the code does keep of C27: _load_access_kpi_data removes leading
\* prefixes only.
C27_KpiOnlyLeading == ret.fn = "columns" => OnlyLeadingRemoved(ret.val.header, ret.val.kpi)

\* ------------------------------------------------------------------ apply_filters
T_Yes == <<"Y", "e", "s">>
T_Somewhat == <<"S", "o", "m", "e", "w", "h", "a", "t">>
T_No == <<"N", "o">>

\* re.compile of a pattern made of letters, "." and "(": a "(" that nothing
\* closes is an error
RegexCompiles(pat) == \A k \in 1..Len(pat) : pat[k] # "("

\* the pattern matches text from position i on: "." stands for any character
RegexMatchesAt(text, pat, i) ==
    \A k \in 1..Len(pat) : pat[k] = "." \/ text[i + k - 1] = pat[k]

\* Series.str.contains(pat, na=False) on one cell (regex=True by default)
StrContains(cell, pat) ==
    /\ cell.t = "str"
    /\ \E i \in 1..(Len(cell.s) - Len(pat) + 1) : RegexMatchesAt(cell.s, pat, i)

\* Series.str.lower() on one cell
StrLower(cell) == IF cell.t = "str" THEN Str(LowerStr(cell.s)) ELSE cell

SearchedCols == <<"Indicator", "Description", "Domain", "Section">>

\* the mask of the search block on one row
SearchMask(row, pattern) ==
    \E k \in 1..Len(SearchedCols) : StrContains(StrLower(row[SearchedCols[k]]), pattern)

\* filtered[filtered[col].isin(values)]
FilterIsIn(t, col, values) ==
    TakeRows(t, SelectSeq([i \in Positions(t) |-> i],
                          LAMBDA i : t.rows[i][col] \in SeqToSet(values)))

\* if values: filtered = filtered[filtered[col].isin(values)]
FilterIfSelected(t, col, values) ==
    IF values = <<>> THEN t ELSE FilterIsIn(t, col, values)

\* for fw in frameworks: filtered = filtered[filtered[fw].isin(["Yes", "Somewhat"])]
RECURSIVE FilterFrameworks(_, _)
FilterFrameworks(t, frameworks) ==
    IF frameworks = <<>> THEN t
    ELSE FilterFrameworks(FilterIsIn(t, Head(frameworks), <<Str(T_Yes), Str(T_Somewhat)>>),
                          Tail(frameworks))

\* reset_index(drop=True)
ResetIndex(t) == [t EXCEPT !.index = [i \in 1..Len(t.rows) |-> i - 1]]

apply_filters(t, search, domains, frequencies, granularities, frameworks) ==
    IF search # <<>> /\ ~RegexCompiles(LowerStr(search))
    THEN Raised("apply_filters", "re.error")
    ELSE LET searched ==
                 IF search = <<>> THEN t
                 ELSE TakeRows(t, SelectSeq([i \in Positions(t) |-> i],
                                            LAMBDA i : SearchMask(t.rows[i], LowerStr(search))))
             byDomain == FilterIfSelected(searched, "Domain", domains)
             byFrequency == FilterIfSelected(byDomain, "Frequency", frequencies)
             byGranularity == FilterIfSelected(byFrequency, "Granularity", granularities)
         IN  Returned("apply_filters",
                      [search |-> search, domains |-> domains, frequencies |-> frequencies,
                       granularities |-> granularities, frameworks |-> frameworks,
                       out |-> ResetIndex(FilterFrameworks(byGranularity, frameworks))])

\* ------------------------------------------------------------------ SpecFilters
IndicatorCols == {"Indicator", "Description", "Domain", "Section", "Frequency",
                  "Granularity", "JMP", "AMCOW"}

T_Annual == <<"A">>
T_Monthly == <<"M">>
T_Utility == <<"U">>
T_ZoneLevel == <<"Z">>
T_Access == <<"a", "b">>
T_Finance == <<"b">>

IndicatorRow(ind, descr, dom, sec, freq, gran, jmp, amcow) ==
    [c \in IndicatorCols |->
        CASE c = "Indicator" -> Str(ind)
          [] c = "Description" -> Str(descr)
          [] c = "Domain" -> Str(dom)
          [] c = "Section" -> Str(sec)
          [] c = "Frequency" -> Str(freq)
          [] c = "Granularity" -> Str(gran)
          [] c = "JMP" -> Str(jmp)
          [] c = "AMCOW" -> Str(amcow)]

IndicatorRows ==
    { IndicatorRow(<<"A", "b">>, <<"a", ".">>, T_Access, <<"b">>, T_Annual, T_Utility, T_Yes, T_No),
      IndicatorRow(<<"b", "(">>, <<"b">>, T_Finance, <<"b">>, T_Monthly, T_ZoneLevel, T_Somewhat, T_Somewhat),
      IndicatorRow(<<"b", "b">>, <<"b", "A">>, T_Access, <<"a">>, T_Annual, T_ZoneLevel, T_No, T_Yes),
      IndicatorRow(<<"b">>, <<"b">>, T_Finance, <<"b", "b">>, T_Monthly, T_Utility, T_Yes, T_Yes) }

IndicatorTables ==
    { Table(IndicatorCols, [i \in 1..Len(rows) |-> i - 1], rows) :
        rows \in UNION {[1..k -> IndicatorRows] : k \in 0..MaxIndicators} }

SearchChars == {"a", "A", "b", ".", "("}

Searches == UNION {[1..k -> SearchChars] : k \in 0..MaxSearchLen}

DomainLists == {<<>>, <<Str(T_Access)>>}
FrequencyLists == {<<>>, <<Str(T_Annual)>>}
GranularityLists == {<<>>, <<Str(T_Utility)>>}
FrameworkLists == {<<>>, <<"JMP">>, <<"JMP", "AMCOW">>}

FiltersInit ==
    /\ df \in IndicatorTables
    /\ latest = NotCalled
    /\ ret = NotCalled
    /\ SlugIdle /\ FilesIdle /\ CacheIdle /\ SessionIdle

CallApplyFilters ==
    /\ ret = NotCalled
    /\ \E search \in Searches, domains \in DomainLists, frequencies \in FrequencyLists,
          granularities \in GranularityLists, frameworks \in FrameworkLists :
          ret' = IF search # <<>> /\ ~RegexCompiles(LowerStr(search))
                 THEN [apply_filters(df, search, domains, frequencies, granularities, frameworks)
                          EXCEPT !.val = [search |-> search]]
                 ELSE apply_filters(df, search, domains, frequencies, granularities, frameworks)
    /\ UNCHANGED <<slugVars, snapVars, fileVars, cacheVars, sessVars>>

FiltersNext == CallApplyFilters

SpecFilters == FiltersInit /\ [][FiltersNext]_vars

\* ------------------------------------------------------------------ C28
FiltersCalled == ret.fn = "apply_filters"

\* text holds part as a run of characters, letter case apart
OccursIn(part, text) ==
    \E i \in 1..(Len(text) - Len(part) + 1) :
        LowerStr(SubSeq(text, i, i + Len(part) - 1)) = LowerStr(part)

\* the row satisfies every active filter of the call
Satisfies(row, f) ==
    /\ f.search = <<>> \/ \E k \in 1..Len(SearchedCols) : OccursIn(f.search, row[SearchedCols[k]].s)
    /\ f.domains = <<>> \/ row["Domain"] \in SeqToSet(f.domains)
    /\ f.frequencies = <<>> \/ row["Frequency"] \in SeqToSet(f.frequencies)
    /\ f.granularities = <<>> \/ row["Granularity"] \in SeqToSet(f.granularities)
    /\ \A k \in 1..Len(f.frameworks) : row[f.frameworks[k]].s \in {T_Yes, T_Somewhat}

ExactlyTheSatisfying ==
    /\ ret.ok
    /\ ret.val.out.rows = SelectSeq(df.rows, LAMBDA row : Satisfies(row, ret.val))

\* C28: apply_filters returns, in their original order, exactly the
\* indicators that satisfy every active filter; an empty search or an empty
\* list restricts nothing.
C28_ExactlyTheSatisfying == FiltersCalled => ExactlyTheSatisfying

\* What the code does keep of C28: the same when the search text is made of
\* letters only.
C28_LetterSearches ==
    (FiltersCalled /\ \A k \in 1..Len(ret.val.search) : ret.val.search[k] \in {"a", "A", "b"})
        => ExactlyTheSatisfying

\* ------------------------------------------------------------------ render_uhn_dashboard
ZONES ==
    << [id |-> "n", name |-> "North", safeAccess |-> 58],
       [id |-> "s", name |-> "South", safeAccess |-> 66],
       [id |-> "e", name |-> "East", safeAccess |-> 74],
       [id |-> "w", name |-> "West", safeAccess |-> 49],
       [id |-> "c", name |-> "Central", safeAccess |-> 81],
       [id |-> "se", name |-> "South-East", safeAccess |-> 63],
       [id |-> "ne", name |-> "North-East", safeAccess |-> 71],
       [id |-> "nw", name |-> "North-West", safeAccess |-> 55] >>

\* ["All"] + [z["name"] for z in ZONES]
zone_names == <<"All">> \o [i \in 1..Len(ZONES) |-> ZONES[i].name]

\* {key for key, _ in scene_labels}
valid_scene_keys == {"exec", "access", "quality", "finance", "production"}

\* A plausible slip: the selector's own key left out of the keys Reset deletes.
ResetKeysWithoutSelector == {"selected_zone", "start_month", "end_month", "blockage_basis"}

\* the keys the Reset filters button deletes
ResetKeys == {"global_zone", "selected_zone", "start_month", "end_month", "blockage_basis"}

\* A widget with key=...: the value stored under the key, or, when the key is
\* not there, the widget's default, which is then stored under the key
Widget(ss, key, default) == IF ss[key] = Missing THEN [ss EXCEPT ![key] = default] ELSE ss

\* next((z for z in ZONES if z["name"] == sel_zone), None)
NextZoneNamed(sel_zone) ==
    IF \E i \in 1..Len(ZONES) : ZONES[i].name = sel_zone
    THEN LET first == CHOOSE i \in 1..Len(ZONES) :
                         /\ ZONES[i].name = sel_zone
                         /\ \A j \in 1..(i - 1) : ZONES[j].name # sel_zone
         IN  PyDict(ZONES[first].id)
    ELSE PyNone

\* if sel_zone == "All": ... = None, else: ... = next(...)
SelectedZone(ss) ==
    [ss EXCEPT !["selected_zone"] =
        IF ss["global_zone"].v = "All" THEN PyNone ELSE NextZoneNamed(ss["global_zone"].v)]

\* the widgets of the sidebar, from the Zone selector to the basis radio
SidebarWidgets(ss) ==
    Widget(Widget(Widget(SelectedZone(Widget(ss, "global_zone", PyStr(zone_names[1]))),
                         "start_month", PyStr("")),
                  "end_month", PyStr("")),
           "blockage_basis", PyStr("per 100 km"))

\* for k in keys: if k in st.session_state: del st.session_state[k]
DeleteKeys(ss, keys) == [k \in SessionKeys |-> IF k \in keys THEN Missing ELSE ss[k]]

\* _sidebar_filters, and the same lines at the head of render_uhn_dashboard:
\* the session state after them, and whether they ended in st.rerun()
_sidebar_filters(ss, reset_clicked) ==
    [session_state |-> IF reset_clicked THEN DeleteKeys(SidebarWidgets(ss), ResetKeys)
                       ELSE SidebarWidgets(ss),
     rerun |-> reset_clicked]

\* the if / elif chain that picks the scene function
SceneOf(active) == IF active \in valid_scene_keys THEN active ELSE "exec"

\* how a run ended: "rendered" with the scene drawn, "rerun" at an
\* st.rerun(), or the exception it raised
RunEnded(event, after, state, outcome, scene) ==
    [session_state |-> state,
     lastRun |-> [event |-> event, after |-> after, outcome |-> outcome, scene |-> scene]]

\* active in valid_scene_keys, for a value that can be hashed
IsValidScene(stored) == stored.kind = "str" /\ stored.v \in valid_scene_keys

\* active = st.session_state.get("active_scene", "exec"), then the check
ActiveScene(stored) == IF IsValidScene(stored) THEN stored.v ELSE "exec"

\* if active not in valid_scene_keys: st.session_state["active_scene"] = "exec"
CheckedScene(ss) ==
    IF ss["active_scene"] = Missing \/ IsValidScene(ss["active_scene"]) THEN ss
    ELSE [ss EXCEPT !["active_scene"] = PyStr("exec")]

\* st.session_state["active_scene"] = key; st.rerun()
GoToScene(event, after, ss) ==
    RunEnded(event, after, [ss EXCEPT !["active_scene"] = PyStr(event.arg)], "rerun", "")

\* the tab buttons, go_to and the scene, after the sidebar and the check
TabsAndScene(ss, event, after, active) ==
    IF event.kind = "tab" THEN GoToScene(event, after, ss)
    ELSE IF event.kind = "go_to" /\ active = "exec" /\ event.arg \in valid_scene_keys
    THEN GoToScene(event, after, ss)
    ELSE RunEnded(event, after, ss, "rendered", SceneOf(active))

\* the run from the scene check on
FromSceneCheck(ss, event, after) ==
    IF ss["active_scene"] = PyList THEN RunEnded(event, after, ss, "TypeError", "")
    ELSE TabsAndScene(CheckedScene(ss), event, after, ActiveScene(ss["active_scene"]))

\* One run of the script on the session state ss (the widget values of the
\* event already in it): the session state it leaves and how it ended.
render_uhn_dashboard(ss, event, after) ==
    IF event.kind = "reset"
    THEN RunEnded(event, after, _sidebar_filters(ss, TRUE).session_state, "rerun", "")
    ELSE FromSceneCheck(_sidebar_filters(ss, FALSE).session_state, event, after)

\* ------------------------------------------------------------------ SpecDashboard
Event(kind, arg) == [kind |-> kind, arg |-> arg]

PriorScenes ==
    {Missing, PyNone, PyList, PyStr("settings")} \cup {PyStr(k) : k \in valid_scene_keys}

Months == {"", "2025-08"}

BlockageBases == {"per 100 km", "per 1000 connections"}

DashboardInit ==
    /\ session_state \in {[NoSession EXCEPT !["active_scene"] = v] : v \in PriorScenes}
    /\ lastRun = NotRun
    /\ ret = NotCalled
    /\ SlugIdle /\ SnapIdle /\ FilesIdle /\ CacheIdle

\* the event of the run that asked for this one, when this one is a rerun
AskedBy(event) == IF event.kind = "rerun" THEN lastRun.event.kind ELSE ""

RunScript(ss, event) ==
    /\ session_state' = render_uhn_dashboard(ss, event, AskedBy(event)).session_state
    /\ lastRun' = render_uhn_dashboard(ss, event, AskedBy(event)).lastRun
    /\ UNCHANGED <<slugVars, snapVars, fileVars, cacheVars, ret>>

\* the page stands: the sidebar is drawn, also when the run raised after it
PageStands == lastRun.outcome \in {"rendered", "TypeError"}

FirstRun == lastRun = NotRun /\ RunScript(session_state, Event("load", ""))

\* the run st.rerun() asked for
Rerun == lastRun.outcome = "rerun" /\ RunScript(session_state, Event("rerun", ""))

SelectZone ==
    /\ PageStands
    /\ \E name \in SeqToSet(zone_names) :
          RunScript([session_state EXCEPT !["global_zone"] = PyStr(name)], Event("zone", name))

TypeStartMonth ==
    /\ PageStands
    /\ \E m \in Months :
          RunScript([session_state EXCEPT !["start_month"] = PyStr(m)], Event("start", m))

TypeEndMonth ==
    /\ PageStands
    /\ \E m \in Months :
          RunScript([session_state EXCEPT !["end_month"] = PyStr(m)], Event("end", m))

PickBlockageBasis ==
    /\ PageStands
    /\ \E b \in BlockageBases :
          RunScript([session_state EXCEPT !["blockage_basis"] = PyStr(b)], Event("basis", b))

ClickResetFilters == PageStands /\ RunScript(session_state, Event("reset", ""))

\* the tab buttons are there once a run has drawn them
ClickTab ==
    /\ lastRun.outcome = "rendered"
    /\ \E key \in valid_scene_keys : RunScript(session_state, Event("tab", key))

\* scene_executive calls the go_to it was handed
CallGoTo ==
    /\ lastRun.outcome = "rendered" /\ lastRun.scene = "exec"
    /\ \E scene_key \in valid_scene_keys \cup {"settings"} :
          RunScript(session_state, Event("go_to", scene_key))

DashboardNext ==
    \/ FirstRun \/ Rerun \/ SelectZone \/ TypeStartMonth \/ TypeEndMonth
    \/ PickBlockageBasis \/ ClickResetFilters \/ ClickTab \/ CallGoTo

SpecDashboard == DashboardInit /\ [][DashboardNext]_vars

\* ------------------------------------------------------------------ C29
\* a run ends with one of the five scenes drawn, or hands over to the next run
SceneRendered ==
    /\ lastRun.outcome \in {"none", "rendered", "rerun"}
    /\ lastRun.outcome = "rendered" => lastRun.scene \in {"exec", "access", "quality", "finance", "production"}

KnownScene(v) ==
    v.kind = "str" /\ v.v \in {"exec", "access", "quality", "finance", "production"}

\* a stored value that is no scene key is exec after the run that drew a scene
UnknownReplaced ==
    (lastRun'.outcome = "rendered" /\ session_state["active_scene"] # Missing
        /\ ~KnownScene(session_state["active_scene"]))
    => (session_state'["active_scene"] = PyStr("exec") /\ lastRun'.scene = "exec")

\* the run of a tab click stores the clicked scene, and the run after it draws it
TabClickRendered ==
    /\ lastRun'.event.kind = "tab" =>
          (lastRun'.outcome = "rerun" /\ session_state'["active_scene"] = PyStr(lastRun'.event.arg))
    /\ (lastRun.event.kind = "tab" /\ lastRun' # lastRun) =>
          (lastRun'.event.kind = "rerun" /\ lastRun'.outcome = "rendered"
              /\ lastRun'.scene = lastRun.event.arg)

C29_HashableStoredScene == session_state["active_scene"] # PyList => SceneRendered

\* the steps of C29 hold as they are
C29_StepsHold == [][UnknownReplaced /\ TabClickRendered]_vars

\* ------------------------------------------------------------------ C30
\* the run of a Reset click deletes the five keys and leaves active_scene
ResetRemoves ==
    lastRun'.event.kind = "reset" =>
        /\ lastRun'.outcome = "rerun"
        /\ \A k \in {"global_zone", "selected_zone", "start_month", "end_month", "blockage_basis"} :
              session_state'[k] = Missing
        /\ session_state'["active_scene"] = session_state["active_scene"]

\* the run after a Reset click has the selector on All and no selected zone
AfterReset ==
    (lastRun.event.kind = "reset" /\ lastRun' # lastRun) =>
        /\ lastRun'.event.kind = "rerun"
        /\ session_state'["global_zone"] = PyStr("All")
        /\ session_state'["selected_zone"] = PyNone

\* after a render selected_zone goes with the selector
ZoneFollowsSelector ==
    lastRun.outcome = "rendered" =>
        LET sel == session_state["global_zone"]
        IN  /\ sel.kind = "str"
            /\ session_state["selected_zone"] = PyNone <=> sel.v = "All"
            /\ sel.v # "All" =>
                  \E i \in 1..Len(ZONES) :
                      ZONES[i].name = sel.v /\ session_state["selected_zone"] = PyDict(ZONES[i].id)

\* C30: a Reset filters click deletes global_zone, selected_zone, start_month,
\* end_month and blockage_basis and leaves active_scene; the rerun after it
\* has the Zone selector on All and selected_zone None; after every render
\* selected_zone is None exactly when the selector shows All and is otherwise
\* the ZONES entry of the selected name.
C30_ResetFilters == [](ZoneFollowsSelector) /\ [][ResetRemoves /\ AfterReset]_vars

\* the run after a Reset click drew a scene other than exec, the selector on All
C30_Witness ==
    /\ lastRun.event.kind = "rerun" /\ lastRun.after = "reset" /\ lastRun.outcome = "rendered"
    /\ session_state["active_scene"] = PyStr("quality")
    /\ session_state["global_zone"] = PyStr("All")
    /\ session_state["start_month"] = PyStr("")

====
